---- MODULE Spec2Model ----
(***************************************************************************)
(* A model of the geometry / UV core of blocksmith:                        *)
(*   - the BlockJSON v3 schema validation (schema/blockjson.py),           *)
(*   - the BBModel exporter and importer (converters/bbmodel),             *)
(*   - the UV mapper (converters/uv_mapper.py),                            *)
(*   - the shelf packers (texturing/smart_uv_packer.py, uv_atlas.py).      *)
(*                                                                         *)
(* Numbers.  The schema stores coordinates as floats.  They are modelled   *)
(* in fixed point: a coordinate in blocks is an integer count of           *)
(* 1/UnitsPerBlock block, a coordinate in pixels an integer count of       *)
(* 1/UnitsPerBlock pixel, so that "x * texel_density" is an integer        *)
(* product, "round(px, 4)" rounds to a multiple of PxQuantum and "px / 16" *)
(* is exact on every value the model produces.                             *)
(***************************************************************************)
EXTENDS Integers, Sequences, FiniteSets, TLC

\* ------------------------------------------------------------------ bounds

\* Largest pivot component, in whole blocks, of the generated entities.
MaxPivot == 2
\* Iterations of the world-pivot loop that are followed for one entity.
MaxWalk == 5

\* --------------------------------------------------------- program constants

PIXELS_PER_BLOCK == 16
DEFAULT_TEXEL_DENSITY == 16
COORDINATE_PRECISION == 4

UnitsPerBlock == PIXELS_PER_BLOCK * (10 ^ COORDINATE_PRECISION) * 3
PxQuantum == UnitsPerBlock \div (10 ^ COORDINATE_PRECISION)

None == "None"

FaceEnum == {"front", "back", "left", "right", "top", "bottom"}

\* --------------------------------------------------------------- variables

VARIABLES
    schema_data,        \* the model dictionary handed to export_bbmodel
    pc,                 \* position of the export / import pipeline
    ent_idx,            \* export_bbmodel: index of the entity being converted
    world_pivot,        \* _calculate_world_pivot: the running sum
    current_parent_id,  \* _calculate_world_pivot: the loop variable
    walk_len,           \* iterations the current walk has made
    id_to_uuid,         \* export_bbmodel: entity id -> uuid
    groups,             \* export_bbmodel: entity id -> converted group node
    bbmodel,            \* the exported document: elements and outliner
    imported            \* the dictionary import_bbmodel returns

pipeVars == <<schema_data, pc, ent_idx, world_pivot, current_parent_id,
              walk_len, id_to_uuid, groups, bbmodel, imported>>

VARIABLES
    pack_fn,            \* which packing entry point this run exercises
    pack_pc,            \* position inside pack_rectangles / pack_strips
    rects,              \* pack_rectangles: the (width, height, id) tuples
    strips,             \* pack_strips: the CuboidStrip objects of the caller
    sorted_order,       \* sorted_rects / sorted_strips, as indices of the input
    atlas_size,         \* the size under trial
    packer,             \* the ShelfPacker / StripPacker of this trial
    pack_i,             \* position of the loop over the sorted items
    packed_results,     \* pack_rectangles: packed_results; else: positions returned
    run,                \* 1 for the first call, 2 for the repeated call
    first_outcome       \* what the first call returned and left behind

packVars == <<pack_fn, pack_pc, rects, strips, sorted_order, atlas_size, packer,
              pack_i, packed_results, run, first_outcome>>

\* The state of one face's UV rectangle on its way out to a .bbmodel document
\* and back.
VARIABLES uv_pc, v3_face_name, normalized_uvs, atlas_w, atlas_h, pixel_uv, face_uv,
          gltf_uv

uvVars ==
    <<uv_pc, v3_face_name, normalized_uvs, atlas_w, atlas_h, pixel_uv, face_uv, gltf_uv>>

\* The state of one trip of a position and a quaternion between the v3 and
\* the Blender coordinate conventions.
VARIABLES coord_pc, coord_dir, pos_in, quat_in, pos_out, quat_out

coordVars == <<coord_pc, coord_dir, pos_in, quat_in, pos_out, quat_out>>

\* The state of one call into rotation_utils.
VARIABLES
    rot_fn,             \* which function of rotation_utils this run exercises
    rot_pc,             \* position inside test_roundtrip_accuracy
    quat,               \* the quaternion [w, x, y, z] handed in
    euler,              \* Euler angles [x, y, z], in thousandths of a degree
    final_quat,         \* test_roundtrip_accuracy: the quaternion that came back
    error_deg,          \* test_roundtrip_accuracy: the angular error
    angle_deg,          \* _normalize_angle: its argument
    normalized_angle,   \* _normalize_angle: its result
    gimbal              \* is_gimbal_lock: its result

rotVars ==
    <<rot_fn, rot_pc, quat, euler, final_quat, error_deg, angle_deg,
      normalized_angle, gimbal>>

\* The state of one call into texturing/uv_atlas.
VARIABLES
    clay_fn,            \* which function of uv_atlas this run exercises
    clay_pc,            \* "start", then "done" or "error"
    v3_json,            \* generate_clay_atlas: the model dict, written in place
    clay_strips,        \* generate_clay_atlas: its list of strips
    box_args,           \* get_box_uv_face_rects: (w_px, h_px, d_px, strip_x, strip_y)
    face_rects          \* get_box_uv_face_rects: the dict it returned

clayVars == <<clay_fn, clay_pc, v3_json, clay_strips, box_args, face_rects>>

\* Session statistics of a Blocksmith object: the counters of the persistent
\* LLMClient, the last operation, and the number of generate calls that
\* returned since the counters were last reset.
VARIABLES call_count, total_tokens, generated_ok, stat_op

statVars == <<call_count, total_tokens, generated_ok, stat_op>>

\* The Python DSL converters: the fields of one V3ToPythonConverter, the text
\* it returned, what import_python made of a text, and the files of convert.
VARIABLES
    dsl_fn, dsl_pc, dsl_schema, entity_map, root_entities, code_lines,
    python_code, json_data, dsl_raised, output_format, output_file

dslVars ==
    <<dsl_fn, dsl_pc, dsl_schema, entity_map, root_entities, code_lines,
      python_code, json_data, dsl_raised, output_format, output_file>>

\* What the steps of one part of the program leave alone.
notPipeVars ==
    <<packVars, uvVars, coordVars, rotVars, clayVars, statVars, dslVars>>
notPackVars ==
    <<pipeVars, uvVars, coordVars, rotVars, clayVars, statVars, dslVars>>
notUVVars ==
    <<pipeVars, packVars, coordVars, rotVars, clayVars, statVars, dslVars>>
notCoordVars ==
    <<pipeVars, packVars, uvVars, rotVars, clayVars, statVars, dslVars>>
notRotVars ==
    <<pipeVars, packVars, uvVars, coordVars, clayVars, statVars, dslVars>>
notClayVars ==
    <<pipeVars, packVars, uvVars, coordVars, rotVars, statVars, dslVars>>
notStatVars ==
    <<pipeVars, packVars, uvVars, coordVars, rotVars, clayVars, dslVars>>
notDslVars ==
    <<pipeVars, packVars, uvVars, coordVars, rotVars, clayVars, statVars>>

vars ==
    <<pipeVars, packVars, uvVars, coordVars, rotVars, clayVars, statVars, dslVars>>

\* ------------------------------------------------------------ small helpers

\* world_pivot[i] = parent.pivot[i] where the code has +=.
Vec3AddOverwrites(a, b) == b
Vec3Add(a, b) == <<a[1] + b[1], a[2] + b[2], a[3] + b[3]>>
Vec3Sub(a, b) == <<a[1] - b[1], a[2] - b[2], a[3] - b[3]>>
Vec3Scale(a, k) == <<a[1] * k, a[2] * k, a[3] * k>>

Indices(s) == [i \in 1..Len(s) |-> i]

\* The last index of s whose element satisfies Test, or 0.
LastIndex(s, Test(_)) ==
    LET hits == {i \in 1..Len(s) : Test(s[i])}
    IN IF hits = {} THEN 0 ELSE CHOOSE i \in hits : \A j \in hits : j <= i

\* Python's round(x, 4) on a pixel value: to the nearest multiple of
\* PxQuantum, ties to the even multiple.
Round4(x) ==
    LET r == x % PxQuantum
        f == x - r
    IN IF 2 * r < PxQuantum THEN f
       ELSE IF 2 * r > PxQuantum THEN f + PxQuantum
       ELSE IF (f \div PxQuantum) % 2 = 0 THEN f ELSE f + PxQuantum

Round4Vec(v) == <<Round4(v[1]), Round4(v[2]), Round4(v[3])>>

\* coord / texel_density in the importer, texel_density being 16.
DivDensity(v, td) == <<v[1] \div td, v[2] \div td, v[3] \div td>>


\* ------------------------------------------------------------ the schema

\* CuboidEntity.validate_bounds and CuboidEntity.validate_faces.
CuboidEntityValid(e) ==
    /\ \A i \in 1..3 : e.to[i] - e.from_[i] >= 0
    /\ e.faces = FaceEnum

\* Entity = Union[CuboidEntity, GroupEntity]: the per-entity validation.
EntityValid(e) ==
    \/ e.type = "group"
    \/ e.type = "cuboid" /\ CuboidEntityValid(e)

\* ModelDefinition.model_validate: meta and every entity are validated one
\* by one; the class declares no validator over the entity list as a whole.
ModelDefinitionValid(data) ==
    /\ data.meta.texel_density \in Int
    /\ \A i \in 1..Len(data.entities) : EntityValid(data.entities[i])

\* ------------------------------------------------- the entity hierarchy

\* Entity i names entity j as its parent.
ParentEdge(ents, i, j) == ents[i].parent # None /\ ents[i].parent = ents[j].id

RECURSIVE AncestorsWithin(_, _, _)
\* The entities reached from the set S by one to fuel parent links.
AncestorsWithin(ents, S, fuel) ==
    LET up == {j \in 1..Len(ents) : \E i \in S : ParentEdge(ents, i, j)}
    IN IF fuel = 0 \/ up = {} THEN {}
       ELSE up \cup AncestorsWithin(ents, up, fuel - 1)

Ancestors(ents, i) == AncestorsWithin(ents, {i}, Len(ents))

HasParentCycle(ents) == \E i \in 1..Len(ents) : i \in Ancestors(ents, i)

HasDuplicateIds(ents) ==
    \E i, j \in 1..Len(ents) : i # j /\ ents[i].id = ents[j].id

HasDanglingParent(ents) ==
    \E i \in 1..Len(ents) :
        /\ ents[i].parent # None
        /\ \A j \in 1..Len(ents) : ents[j].id # ents[i].parent

IsTree(ents) ==
    ~HasParentCycle(ents) /\ ~HasDuplicateIds(ents) /\ ~HasDanglingParent(ents)

\* ------------------------------------------------------------ the inputs

EntityIds == <<"a", "b", "c">>
Parents == {None} \cup {EntityIds[k] : k \in 1..Len(EntityIds)}
TexelDensities == {DEFAULT_TEXEL_DENSITY, 2 * DEFAULT_TEXEL_DENSITY}

HalfBlock == UnitsPerBlock \div 2
GoodBox == [from_ |-> <<-HalfBlock, -HalfBlock, -HalfBlock>>,
            to |-> <<HalfBlock, HalfBlock, HalfBlock>>, faces |-> FaceEnum]
InvertedBox == [GoodBox EXCEPT !.from_[1] = HalfBlock, !.to[1] = -HalfBlock]
FiveFaceBox == [GoodBox EXCEPT !.faces = FaceEnum \ {"bottom"}]
CuboidShapes == {GoodBox, InvertedBox, FiveFaceBox}

UnitPivot == <<UnitsPerBlock, 0, 0>>
PivotChoices ==
    {<<k * UnitsPerBlock, 0, 0>> : k \in 0..MaxPivot}
        \cup {<<UnitsPerBlock \div 3, 0, -UnitsPerBlock>>}

MakeGroup(id, parent, pivot) ==
    [id |-> id, type |-> "group", parent |-> parent, pivot |-> pivot]
MakeCuboid(id, parent, pivot, shape) ==
    [id |-> id, type |-> "cuboid", parent |-> parent, pivot |-> pivot,
     from_ |-> shape.from_, to |-> shape.to, faces |-> shape.faces]

\* Entities that vary the structure: the id may repeat the first entity's,
\* the parent may be any id (its own, a later one, one that is absent) and
\* a cuboid may be malformed.
StructureEntities(k) ==
    LET ids == {EntityIds[k], EntityIds[1]}
    IN {MakeGroup(i, p, UnitPivot) : i \in ids, p \in Parents}
        \cup {MakeCuboid(i, p, UnitPivot, s) :
                i \in ids, p \in Parents, s \in CuboidShapes}

\* Entities that vary the geometry of well-formed models.
PayloadEntities(k) ==
    {MakeGroup(EntityIds[k], p, v) : p \in Parents, v \in PivotChoices}
        \cup {MakeCuboid(EntityIds[k], p, v, GoodBox) :
                p \in Parents, v \in PivotChoices}

TablesOf(Cand(_)) ==
    {<<e1>> : e1 \in Cand(1)}
        \cup {<<e1, e2>> : e1 \in Cand(1), e2 \in Cand(2)}
        \cup {<<e1, e2, e3>> : e1 \in Cand(1), e2 \in Cand(2), e3 \in Cand(3)}

StructureModels ==
    {[meta |-> [texel_density |-> DEFAULT_TEXEL_DENSITY], entities |-> t] :
        t \in TablesOf(StructureEntities)}

PayloadModels ==
    {[meta |-> [texel_density |-> td], entities |-> t] :
        td \in TexelDensities,
        t \in {u \in TablesOf(PayloadEntities) : IsTree(u)}}


\* ------------------------------------------------------- export_bbmodel

\* str(uuid.uuid4()) for the k-th entity of the export loop: a fresh value.
UuidOf(k) == <<"u1", "u2", "u3", "u4">>[k]

\* entities_dict = {entity.id: entity for entity in model.entities}: of two
\* entities with one id the later one is kept.
EntitiesDictHas(ents, id) == \E i \in 1..Len(ents) : ents[i].id = id
EntitiesDict(ents, id) == ents[LastIndex(ents, LAMBDA e : e.id = id)]

\* The condition of the while loop of _calculate_world_pivot.
WalkContinues(ents, parent_id) ==
    parent_id # None /\ EntitiesDictHas(ents, parent_id)

\* _convert_cuboid_to_bbmodel, with the world pivot already resolved.
ConvertCuboid(cuboid, entity_uuid, texel_density, wp) ==
    LET from_world == Vec3Add(cuboid.from_, wp)
        to_world == Vec3Add(cuboid.to, wp)
        lo == [i \in 1..3 |-> IF from_world[i] > to_world[i]
                              THEN to_world[i] ELSE from_world[i]]
        hi == [i \in 1..3 |-> IF from_world[i] > to_world[i]
                              THEN from_world[i] ELSE to_world[i]]
    IN [type |-> "cube", uuid |-> entity_uuid,
        from |-> Round4Vec(Vec3Scale(lo, texel_density)),
        to |-> Round4Vec(Vec3Scale(hi, texel_density)),
        origin |-> Round4Vec(Vec3Scale(wp, texel_density))]

\* _convert_group_to_bbmodel, with the world pivot already resolved.
ConvertGroup(group, entity_uuid, texel_density, wp) ==
    [kind |-> "group", uuid |-> entity_uuid,
     origin |-> Vec3Scale(wp, texel_density), children |-> <<>>]

\* The children of build_node: [e for e in entities if e.parent == entity.id].
ChildrenOf(ents, id) == SelectSeq(Indices(ents), LAMBDA c : ents[c].parent = id)

RECURSIVE BuildNodeOverflows(_, _, _)
\* build_node(entities[k]) recurses without end: a chain of calls longer than
\* the entity list repeats an entity.
BuildNodeOverflows(ents, k, depth) ==
    IF depth > Len(ents) THEN TRUE
    ELSE IF ents[k].type = "cuboid" THEN FALSE
    ELSE LET ch == ChildrenOf(ents, ents[k].id)
         IN \E j \in 1..Len(ch) : BuildNodeOverflows(ents, ch[j], depth + 1)

RECURSIVE BuildNode(_, _, _, _)
\* build_node of _build_outliner.
BuildNode(ents, uuids, converted, k) ==
    IF ents[k].type = "cuboid"
    THEN [kind |-> "ref", uuid |-> uuids[ents[k].id]]
    ELSE IF ents[k].id \in DOMAIN converted
    THEN LET ch == ChildrenOf(ents, ents[k].id)
         IN [converted[ents[k].id] EXCEPT
                !.children = [j \in 1..Len(ch) |->
                                BuildNode(ents, uuids, converted, ch[j])]]
    ELSE [kind |-> "ref", uuid |-> uuids[ents[k].id]]

RootEntities(ents) == SelectSeq(Indices(ents), LAMBDA c : ents[c].parent = None)

\* _build_outliner raises RecursionError.
OutlinerOverflows(ents) ==
    LET roots == RootEntities(ents)
    IN \E j \in 1..Len(roots) : BuildNodeOverflows(ents, roots[j], 1)

\* _build_outliner.
BuildOutliner(ents, uuids, converted) ==
    LET roots == RootEntities(ents)
    IN [j \in 1..Len(roots) |-> BuildNode(ents, uuids, converted, roots[j])]


\* ------------------------------------------------------- import_bbmodel

RECURSIVE FlattenOutliner(_, _)
\* The outliner in the order its recursive walks visit it, each node with the
\* uuid of the group that encloses it (parent_id).
FlattenOutliner(nodes, parent_id) ==
    IF nodes = <<>> THEN <<>>
    ELSE LET node == Head(nodes)
             here == IF node.kind = "ref"
                     THEN <<[kind |-> "ref", uuid |-> node.uuid,
                             parent |-> parent_id]>>
                     ELSE <<[kind |-> "group", uuid |-> node.uuid,
                             origin |-> node.origin, parent |-> parent_id]>>
                            \o FlattenOutliner(node.children, node.uuid)
         IN here \o FlattenOutliner(Tail(nodes), parent_id)

\* _build_hierarchy_map followed by entity_parents.get(uuid).
EntityParentsGet(flat, u) ==
    LET k == LastIndex(flat, LAMBDA n : n.kind = "ref" /\ n.uuid = u)
    IN IF k = 0 THEN None ELSE flat[k].parent

\* _collect_group_transforms: group uuid -> world pivot in blocks.
GroupTransformsHas(flat, g) ==
    \E k \in 1..Len(flat) : flat[k].kind = "group" /\ flat[k].uuid = g
GroupTransformsPivot(flat, g) ==
    DivDensity(flat[LastIndex(flat, LAMBDA n : n.kind = "group" /\ n.uuid = g)].origin,
               DEFAULT_TEXEL_DENSITY)

\* "Convert world pivot to LOCAL pivot (relative to parent)".
LocalPivot(flat, parent_id, world) ==
    IF parent_id # None /\ GroupTransformsHas(flat, parent_id)
    THEN Vec3Sub(world, GroupTransformsPivot(flat, parent_id))
    ELSE world

\* The loop body of import_bbmodel over bbmodel_data["elements"].
ImportCuboid(flat, element) ==
    LET texel_density == DEFAULT_TEXEL_DENSITY
        parent_id == EntityParentsGet(flat, element.uuid)
        origin_world_v3 == DivDensity(element.origin, texel_density)
        from_local == Vec3Sub(DivDensity(element.from, texel_density), origin_world_v3)
        to_local == Vec3Sub(DivDensity(element.to, texel_density), origin_world_v3)
    IN [id |-> element.uuid, type |-> "cuboid", parent |-> parent_id,
        pivot |-> LocalPivot(flat, parent_id, origin_world_v3),
        from_ |-> [i \in 1..3 |-> IF from_local[i] > to_local[i]
                                  THEN to_local[i] ELSE from_local[i]],
        to |-> [i \in 1..3 |-> IF from_local[i] > to_local[i]
                                THEN from_local[i] ELSE to_local[i]],
        faces |-> FaceEnum]

\* The loop body of _create_groups_from_outliner for one group node.
ImportGroup(flat, node) ==
    [id |-> node.uuid, type |-> "group", parent |-> node.parent,
     pivot |-> LocalPivot(flat, node.parent,
                          DivDensity(node.origin, DEFAULT_TEXEL_DENSITY))]

\* import_bbmodel: the cuboids in the order of "elements", then the groups
\* in the order of the outliner.
ImportBBModel(doc) ==
    LET flat == FlattenOutliner(doc.outliner, None)
        group_nodes == SelectSeq(flat, LAMBDA n : n.kind = "group")
        cubes == SelectSeq(doc.elements, LAMBDA el : el.type = "cube")
    IN [meta |-> [texel_density |-> DEFAULT_TEXEL_DENSITY],
        entities |->
            [j \in 1..Len(cubes) |-> ImportCuboid(flat, cubes[j])]
                \o [j \in 1..Len(group_nodes) |-> ImportGroup(flat, group_nodes[j])]]

\* ----------------------------------------------------------- the pipeline

NoVec == <<0, 0, 0>>
EmptyDoc == [elements |-> <<>>, outliner |-> <<>>]
NoModel == [meta |-> [texel_density |-> 0], entities |-> <<>>]

\* export_bbmodel, line 114: ModelDefinition.model_validate(schema_data);
\* a rejected model raises ValueError.
Validate ==
    /\ pc = "validate"
    /\ pc' = IF ModelDefinitionValid(schema_data) THEN "export" ELSE "rejected"
    /\ ent_idx' = 1
    /\ UNCHANGED <<notPipeVars, schema_data, world_pivot, current_parent_id, walk_len,
                   id_to_uuid, groups, bbmodel, imported>>

\* The head of the loop over model.entities and the first two statements of
\* _calculate_world_pivot.
WalkBegin ==
    /\ pc = "export"
    /\ ent_idx <= Len(schema_data.entities)
    /\ world_pivot' = schema_data.entities[ent_idx].pivot
    /\ current_parent_id' = schema_data.entities[ent_idx].parent
    /\ walk_len' = 0
    /\ pc' = "walk"
    /\ UNCHANGED <<notPipeVars, schema_data, ent_idx, id_to_uuid, groups, bbmodel, imported>>

\* One iteration of the while loop of _calculate_world_pivot.
WalkStep ==
    /\ pc = "walk"
    /\ WalkContinues(schema_data.entities, current_parent_id)
    /\ walk_len < MaxWalk
    /\ LET parent == EntitiesDict(schema_data.entities, current_parent_id)
       IN /\ world_pivot' = Vec3Add(world_pivot, parent.pivot)
          /\ current_parent_id' = parent.parent
    /\ walk_len' = walk_len + 1
    /\ UNCHANGED <<notPipeVars, schema_data, pc, ent_idx, id_to_uuid, groups, bbmodel, imported>>

\* The loop of _calculate_world_pivot ends and the entity is converted.
ConvertEntity ==
    /\ pc = "walk"
    /\ ~WalkContinues(schema_data.entities, current_parent_id)
    /\ LET entity == schema_data.entities[ent_idx]
           td == schema_data.meta.texel_density
       IN /\ id_to_uuid' = (entity.id :> UuidOf(ent_idx)) @@ id_to_uuid
          /\ IF entity.type = "cuboid"
             THEN /\ bbmodel' = [bbmodel EXCEPT !.elements =
                        Append(@, ConvertCuboid(entity, UuidOf(ent_idx), td, world_pivot))]
                  /\ groups' = groups
             ELSE /\ groups' = (entity.id :>
                        ConvertGroup(entity, UuidOf(ent_idx), td, world_pivot)) @@ groups
                  /\ bbmodel' = bbmodel
    /\ ent_idx' = ent_idx + 1
    /\ pc' = "export"
    /\ UNCHANGED <<notPipeVars, schema_data, world_pivot, current_parent_id, walk_len, imported>>

\* After the loop: _build_outliner, and the document is returned.
FinishExport ==
    /\ pc = "export"
    /\ ent_idx > Len(schema_data.entities)
    /\ IF OutlinerOverflows(schema_data.entities)
       THEN pc' = "crashed" /\ bbmodel' = bbmodel
       ELSE /\ pc' = "exported"
            /\ bbmodel' = [bbmodel EXCEPT !.outliner =
                    BuildOutliner(schema_data.entities, id_to_uuid, groups)]
    /\ UNCHANGED <<notPipeVars, schema_data, ent_idx, world_pivot, current_parent_id, walk_len,
                   id_to_uuid, groups, imported>>

\* import_bbmodel on the exported document.
Import ==
    /\ pc = "exported"
    /\ LET result == ImportBBModel(bbmodel)
       IN IF ModelDefinitionValid(result)
          THEN pc' = "imported" /\ imported' = result
          ELSE pc' = "crashed" /\ imported' = imported
    /\ UNCHANGED <<notPipeVars, schema_data, ent_idx, world_pivot, current_parent_id, walk_len,
                   id_to_uuid, groups, bbmodel>>

\* ================================================================ packers

\* Bounds of the packing inputs.
MaxRects == 3
MaxStrips == 3
MaxCalls == 4

\* pack_rectangles: min_size, max_size; pack_strips: min_size, max_size.
RectMinSize == 16
RectMaxSize == 8192
StripMinSize == 16
StripMaxSize == 2048

RECURSIVE Pow2AtLeast(_, _)
Pow2AtLeast(p, n) == IF p >= n THEN p ELSE Pow2AtLeast(2 * p, n)

\* next_power_of_2: 2 ** ceil(log2(n)), and 1 for n <= 0.
next_power_of_2(n) == IF n <= 0 THEN 1 ELSE Pow2AtLeast(1, n)

\* m * m >= a, computed without a product that leaves the 32-bit integers.
SquareAtLeast(m, a) == IF m = 0 THEN a <= 0 ELSE m >= (a + m - 1) \div m

RECURSIVE LeastSquareRoot(_, _, _)
\* The least m in lo..hi with m * m >= a.
LeastSquareRoot(lo, hi, a) ==
    IF lo >= hi THEN lo
    ELSE CHOOSE root \in {IF SquareAtLeast(mid, a)
                             THEN LeastSquareRoot(lo, mid, a)
                             ELSE LeastSquareRoot(mid + 1, hi, a) :
                          mid \in {(lo + hi) \div 2}} : TRUE

\* math.ceil(math.sqrt(a)).
CeilSqrt(a) == CHOOSE root \in {LeastSquareRoot(0, area, area) : area \in {a}} : TRUE

RECURSIVE SumSeq(_)
SumSeq(s) == IF s = <<>> THEN 0 ELSE Head(s) + SumSeq(Tail(s))
SumOver(s, F(_)) == SumSeq([i \in 1..Len(s) |-> F(s[i])])

MaxOver(s, F(_)) ==
    LET vals == {F(s[i]) : i \in 1..Len(s)}
    IN CHOOSE v \in vals : \A u \in vals : u <= v

\* sorted(items, key=lambda r: (height, width), reverse=True) as the sequence
\* of the indices of items: larger keys first, equal keys in input order
\* (the sort is stable, also when reversed).
KeyAbove(a, b) == a[1] > b[1] \/ (a[1] = b[1] /\ a[2] > b[2])
SortedDescending(items, Key(_)) ==
    LET n == Len(items)
        Before(i, j) == \/ KeyAbove(Key(items[i]), Key(items[j]))
                        \/ Key(items[i]) = Key(items[j]) /\ i < j
        Rank(i) == 1 + Cardinality({j \in 1..n : Before(j, i)})
    IN [r \in 1..n |-> CHOOSE i \in 1..n : Rank(i) = r]

\* ShelfPacker.__init__ and StripPacker.__init__.
ShelfPacker(width, height) == [width |-> width, height |-> height, shelves |-> <<>>]
\* StripPacker with shelves as a list shared by all its instances.
StripPackerSharedShelves(width, height) ==
    [width |-> width, height |-> height, shelves |-> packer.shelves]
StripPacker(width, height) == [width |-> width, height |-> height, shelves |-> <<>>]

\* The first shelf of p that takes a width x height item, or 0.
FirstFittingShelf(p, width, height) ==
    LET fits == {k \in 1..Len(p.shelves) :
                    /\ width <= p.width - p.shelves[k].x
                    /\ height <= p.shelves[k].height}
    IN IF fits = {} THEN 0 ELSE CHOOSE k \in fits : \A j \in fits : k <= j

\* ShelfPacker.pack that forgets shelf['x'] += width.
ShelfPackerPackNoAdvance(p, width, height) ==
    LET k == FirstFittingShelf(p, width, height)
        new_y == SumOver(p.shelves, LAMBDA sh : sh.height)
    IN IF k # 0
       THEN [ok |-> TRUE, x |-> p.shelves[k].x, y |-> p.shelves[k].y, packer |-> p]
       ELSE IF new_y + height > p.height \/ width > p.width
       THEN [ok |-> FALSE, x |-> 0, y |-> 0, packer |-> p]
       ELSE [ok |-> TRUE, x |-> 0, y |-> new_y,
             packer |-> [p EXCEPT !.shelves =
                            Append(@, [y |-> new_y, height |-> height, x |-> width])]]

\* ShelfPacker.pack: ok is FALSE for the None it returns on failure.
ShelfPackerPack(p, width, height) ==
    LET k == FirstFittingShelf(p, width, height)
        new_y == SumOver(p.shelves, LAMBDA sh : sh.height)
    IN IF k # 0
       THEN [ok |-> TRUE, x |-> p.shelves[k].x, y |-> p.shelves[k].y,
             packer |-> [p EXCEPT !.shelves[k].x = @ + width]]
       ELSE IF new_y + height > p.height \/ width > p.width
       THEN [ok |-> FALSE, x |-> 0, y |-> 0, packer |-> p]
       ELSE [ok |-> TRUE, x |-> 0, y |-> new_y,
             packer |-> [p EXCEPT !.shelves =
                            Append(@, [y |-> new_y, height |-> height, x |-> width])]]

\* StripPacker.pack: the strip object is written only on success.
StripPackerPack(p, strip) ==
    LET k == FirstFittingShelf(p, strip.strip_w, strip.strip_h)
        new_y == SumOver(p.shelves, LAMBDA sh : sh.height)
    IN IF k # 0
       THEN [ok |-> TRUE,
             strip |-> [strip EXCEPT !.x = p.shelves[k].x, !.y = p.shelves[k].y,
                                     !.packed = TRUE],
             packer |-> [p EXCEPT !.shelves[k].x = @ + strip.strip_w]]
       ELSE IF new_y + strip.strip_h > p.height \/ strip.strip_w > p.width
       THEN [ok |-> FALSE, strip |-> strip, packer |-> p]
       ELSE [ok |-> TRUE,
             strip |-> [strip EXCEPT !.x = 0, !.y = new_y, !.packed = TRUE],
             packer |-> [p EXCEPT !.shelves =
                            Append(@, [y |-> new_y, height |-> strip.strip_h,
                                       x |-> strip.strip_w])]]

\* CuboidStrip(...) as generate_clay_atlas builds it from the pixel sizes.
CuboidStrip(entity_id, w_px, h_px, d_px) ==
    [entity_id |-> entity_id, w_px |-> w_px, h_px |-> h_px, d_px |-> d_px,
     strip_w |-> 2 * (w_px + d_px), strip_h |-> h_px + d_px,
     x |-> 0, y |-> 0, packed |-> FALSE]

\* pack_rectangles starting from the area instead of its square root.
RectStartSizeNoSqrt(rs) ==
    LET total_area == SumOver(rs, LAMBDA r : r[1] * r[2])
        start_size == IF RectMinSize >= next_power_of_2(total_area)
                      THEN RectMinSize ELSE next_power_of_2(total_area)
        max_w == MaxOver(rs, LAMBDA r : r[1])
        max_h == MaxOver(rs, LAMBDA r : r[2])
        biggest == next_power_of_2(IF max_w >= max_h THEN max_w ELSE max_h)
    IN IF start_size >= biggest THEN start_size ELSE biggest

\* pack_rectangles, lines 70-78: the size the loop starts from.
RectStartSize(rs) ==
    LET total_area == SumOver(rs, LAMBDA r : r[1] * r[2])
        min_dim == CeilSqrt(total_area)
        start_size == IF RectMinSize >= next_power_of_2(min_dim)
                      THEN RectMinSize ELSE next_power_of_2(min_dim)
        max_w == MaxOver(rs, LAMBDA r : r[1])
        max_h == MaxOver(rs, LAMBDA r : r[2])
        biggest == next_power_of_2(IF max_w >= max_h THEN max_w ELSE max_h)
    IN IF start_size >= biggest THEN start_size ELSE biggest

\* pack_strips, line 167.
StripStartSize(ss) ==
    LET tallest == next_power_of_2(MaxOver(ss, LAMBDA st : st.strip_h))
    IN IF StripMinSize >= tallest THEN StripMinSize ELSE tallest

\* A retry that does not grow the atlas.
SameAtlasSize(size) == size
\* atlas_size *= 2.
NextAtlasSize(size) == size * 2

\* ------------------------------------------------------ packing inputs

RectShapes == {<<1, 1>>, <<9, 1>>, <<17, 17>>, <<5000, 5000>>, <<9000, 1>>}
RectLists == UNION {[1..n -> RectShapes] : n \in 0..MaxRects}
\* (width, height, id): the id of a rectangle is its place in the list.
WithIds(l) == [i \in 1..Len(l) |-> <<l[i][1], l[i][2], i>>]

StripPixels == {<<1, 1, 1>>, <<3, 9, 2>>, <<16, 16, 16>>, <<2000, 1, 1>>}
StripLists == UNION {[1..n -> StripPixels] : n \in 0..MaxStrips}
MakeStrips(l) == [i \in 1..Len(l) |-> CuboidStrip(i, l[i][1], l[i][2], l[i][3])]

\* A packer used directly: its size, and the items handed to pack.
FreeSize == 8
FreeDims == {1, 3, 5}
FreePixels == {<<1, 1, 1>>, <<1, 3, 1>>, <<2, 1, 2>>}

NoPacker == ShelfPacker(0, 0)
NoOutcome == [pc |-> "none", atlas_size |-> 0, positions |-> <<>>]

\* --------------------------------------------------- a packer used directly

\* The caller constructs the packer it is going to use.
NewPacker ==
    /\ pack_pc = "new"
    /\ packer' = IF pack_fn = "ShelfPacker" THEN ShelfPacker(FreeSize, FreeSize)
                 ELSE StripPacker(FreeSize, FreeSize)
    /\ pack_pc' = "free"
    /\ UNCHANGED <<notPackVars, pack_fn, rects, strips, sorted_order, atlas_size,
                   pack_i, packed_results, run, first_outcome>>

\* One call of ShelfPacker.pack; the caller keeps what it returned.
ShelfPackCall ==
    /\ pack_pc = "free"
    /\ pack_fn = "ShelfPacker"
    /\ Len(packed_results) < MaxCalls
    /\ \E w \in FreeDims, h \in FreeDims :
        LET res == ShelfPackerPack(packer, w, h)
        IN /\ packer' = res.packer
           /\ packed_results' = Append(packed_results,
                [ok |-> res.ok, x |-> res.x, y |-> res.y, width |-> w, height |-> h])
    /\ UNCHANGED <<notPackVars, pack_fn, pack_pc, rects, strips, sorted_order,
                   atlas_size, pack_i, run, first_outcome>>

\* One call of StripPacker.pack on a new strip object.
StripPackCall ==
    /\ pack_pc = "free"
    /\ pack_fn = "StripPacker"
    /\ Len(strips) < MaxCalls
    /\ \E px \in FreePixels :
        LET res == StripPackerPack(packer,
                        CuboidStrip(Len(strips) + 1, px[1], px[2], px[3]))
        IN /\ packer' = res.packer
           /\ strips' = Append(strips, res.strip)
    /\ UNCHANGED <<notPackVars, pack_fn, pack_pc, rects, sorted_order,
                   atlas_size, pack_i, packed_results, run, first_outcome>>

\* ------------------------------------------- pack_rectangles, pack_strips

Items == IF pack_fn = "pack_rectangles" THEN rects ELSE strips
MaxSize == IF pack_fn = "pack_rectangles" THEN RectMaxSize ELSE StripMaxSize

\* Rectangle results as the list of dicts pack_rectangles returns.
PackedRect(r, x, y) == [id |-> r[3], x |-> x, y |-> y, width |-> r[1], height |-> r[2]]

\* The lines before the while loop: the early return for an empty list, the
\* sort and the size to start from.
PackStart ==
    /\ pack_pc = "start"
    /\ pack_fn \in {"pack_rectangles", "pack_strips"}
    /\ IF Items = <<>>
       THEN /\ pack_pc' = "done"
            /\ atlas_size' = IF pack_fn = "pack_rectangles" THEN 16 ELSE StripMinSize
            /\ sorted_order' = <<>>
       ELSE /\ pack_pc' = "loop"
            /\ sorted_order' =
                 IF pack_fn = "pack_rectangles"
                 THEN SortedDescending(rects, LAMBDA r : <<r[2], r[1]>>)
                 ELSE SortedDescending(strips, LAMBDA st : <<st.strip_h, st.strip_w>>)
            /\ atlas_size' = IF pack_fn = "pack_rectangles"
                             THEN RectStartSize(rects) ELSE StripStartSize(strips)
    /\ packed_results' = <<>>
    /\ pack_i' = 0
    /\ UNCHANGED <<notPackVars, pack_fn, rects, strips, packer, run, first_outcome>>

\* while atlas_size <= max_size: a new packer, empty results, strips reset;
\* after the loop: raise RuntimeError.
LoopHead ==
    /\ pack_pc = "loop"
    /\ IF atlas_size <= MaxSize
       THEN /\ pack_pc' = "pack"
            /\ packer' = IF pack_fn = "pack_rectangles"
                         THEN ShelfPacker(atlas_size, atlas_size)
                         ELSE StripPacker(atlas_size, atlas_size)
            /\ packed_results' = <<>>
            /\ strips' = [i \in 1..Len(strips) |->
                            [strips[i] EXCEPT !.packed = FALSE, !.x = 0, !.y = 0]]
            /\ pack_i' = 1
       ELSE /\ pack_pc' = "error"
            /\ UNCHANGED <<packer, packed_results, strips, pack_i>>
    /\ UNCHANGED <<notPackVars, pack_fn, rects, sorted_order, atlas_size, run,
                   first_outcome>>

\* One turn of the for loop of pack_rectangles.
PackRect ==
    /\ pack_pc = "pack"
    /\ pack_fn = "pack_rectangles"
    /\ LET r == rects[sorted_order[pack_i]]
           pos == ShelfPackerPack(packer, r[1], r[2])
       IN /\ packer' = pos.packer
          /\ IF pos.ok
             THEN /\ packed_results' = Append(packed_results, PackedRect(r, pos.x, pos.y))
                  /\ pack_i' = pack_i + 1
                  /\ pack_pc' = IF pack_i = Len(sorted_order) THEN "done" ELSE "pack"
                  /\ UNCHANGED atlas_size
             ELSE /\ atlas_size' = NextAtlasSize(atlas_size)
                  /\ pack_pc' = "loop"
                  /\ UNCHANGED <<packed_results, pack_i>>
    /\ UNCHANGED <<notPackVars, pack_fn, rects, strips, sorted_order, run, first_outcome>>

\* One element of all(packer.pack(strip) for strip in sorted_strips).
PackStrip ==
    /\ pack_pc = "pack"
    /\ pack_fn = "pack_strips"
    /\ LET k == sorted_order[pack_i]
           res == StripPackerPack(packer, strips[k])
       IN /\ packer' = res.packer
          /\ strips' = [strips EXCEPT ![k] = res.strip]
          /\ IF res.ok
             THEN /\ pack_i' = pack_i + 1
                  /\ pack_pc' = IF pack_i = Len(sorted_order) THEN "done" ELSE "pack"
                  /\ UNCHANGED atlas_size
             ELSE /\ atlas_size' = NextAtlasSize(atlas_size)
                  /\ pack_pc' = "loop"
                  /\ UNCHANGED pack_i
    /\ UNCHANGED <<notPackVars, pack_fn, rects, sorted_order, packed_results, run,
                   first_outcome>>

\* What a caller sees of a finished run: how it ended, the atlas size, and
\* the position of every item.
Outcome ==
    [pc |-> pack_pc,
     atlas_size |-> atlas_size,
     positions |-> IF pack_fn = "pack_rectangles" THEN packed_results
                   ELSE [i \in 1..Len(strips) |->
                            <<strips[i].x, strips[i].y, strips[i].packed>>]]

\* The caller packs the same list again: the same tuples, the same strip
\* objects as the first run left them.
PackAgain ==
    /\ pack_pc \in {"done", "error"}
    /\ run = 1
    /\ first_outcome' = Outcome
    /\ run' = 2
    /\ pack_pc' = "start"
    /\ UNCHANGED <<notPackVars, pack_fn, rects, strips, sorted_order, atlas_size,
                   packer, pack_i, packed_results>>

PackNext ==
    \/ NewPacker
    \/ ShelfPackCall
    \/ StripPackCall
    \/ PackStart
    \/ LoopHead
    \/ PackRect
    \/ PackStrip
    \/ PackAgain

\* ------------------------------------------------- parts that are not in use

PipeIdle ==
    /\ schema_data = NoModel
    /\ pc = "idle"
    /\ ent_idx = 0
    /\ world_pivot = NoVec
    /\ current_parent_id = None
    /\ walk_len = 0
    /\ id_to_uuid = <<>>
    /\ groups = <<>>
    /\ bbmodel = EmptyDoc
    /\ imported = NoModel

PackIdle ==
    /\ pack_fn = "idle"
    /\ pack_pc = "idle"
    /\ rects = <<>>
    /\ strips = <<>>
    /\ sorted_order = <<>>
    /\ atlas_size = 0
    /\ packer = NoPacker
    /\ pack_i = 0
    /\ packed_results = <<>>
    /\ run = 0
    /\ first_outcome = NoOutcome

UVIdle ==
    /\ uv_pc = "idle"
    /\ v3_face_name = None
    /\ normalized_uvs = <<>>
    /\ atlas_w = 0
    /\ atlas_h = 0
    /\ pixel_uv = <<>>
    /\ face_uv = <<>>
    /\ gltf_uv = <<>>

CoordIdle ==
    /\ coord_pc = "idle"
    /\ coord_dir = None
    /\ pos_in = <<>>
    /\ quat_in = <<>>
    /\ pos_out = <<>>
    /\ quat_out = <<>>

RotIdle ==
    /\ rot_fn = "idle"
    /\ rot_pc = "idle"
    /\ quat = <<>>
    /\ euler = <<>>
    /\ final_quat = <<>>
    /\ error_deg = 0
    /\ angle_deg = 0
    /\ normalized_angle = 0
    /\ gimbal = FALSE

ClayIdle ==
    /\ clay_fn = "idle"
    /\ clay_pc = "idle"
    /\ v3_json = <<>>
    /\ clay_strips = <<>>
    /\ box_args = <<>>
    /\ face_rects = <<>>

StatIdle ==
    /\ call_count = 0
    /\ total_tokens = 0
    /\ generated_ok = 0
    /\ stat_op = <<>>

DslIdle ==
    /\ dsl_fn = "idle"
    /\ dsl_pc = "idle"
    /\ dsl_schema = <<>>
    /\ entity_map = <<>>
    /\ root_entities = <<>>
    /\ code_lines = <<>>
    /\ python_code = <<>>
    /\ json_data = <<>>
    /\ dsl_raised = None
    /\ output_format = None
    /\ output_file = None

\* The parts beside the converters, the packers and the face UV mapping.
LaterIdle == CoordIdle /\ RotIdle /\ ClayIdle /\ StatIdle /\ DslIdle

NotCoordIdle ==
    PipeIdle /\ PackIdle /\ UVIdle /\ RotIdle /\ ClayIdle /\ StatIdle /\ DslIdle
NotRotIdle ==
    PipeIdle /\ PackIdle /\ UVIdle /\ CoordIdle /\ ClayIdle /\ StatIdle /\ DslIdle
NotClayIdle ==
    PipeIdle /\ PackIdle /\ UVIdle /\ CoordIdle /\ RotIdle /\ StatIdle /\ DslIdle
NotStatIdle ==
    PipeIdle /\ PackIdle /\ UVIdle /\ CoordIdle /\ RotIdle /\ ClayIdle /\ DslIdle
NotDslIdle ==
    PipeIdle /\ PackIdle /\ UVIdle /\ CoordIdle /\ RotIdle /\ ClayIdle /\ StatIdle

\* A packing run: the converters are not in use.
PackInit ==
    /\ LaterIdle
    /\ pack_fn \in {"pack_rectangles", "pack_strips", "ShelfPacker", "StripPacker"}
    /\ rects \in IF pack_fn = "pack_rectangles"
                 THEN {WithIds(l) : l \in RectLists} ELSE {<<>>}
    /\ strips \in IF pack_fn = "pack_strips"
                  THEN {MakeStrips(l) : l \in StripLists} ELSE {<<>>}
    /\ pack_pc = IF pack_fn \in {"ShelfPacker", "StripPacker"} THEN "new" ELSE "start"
    /\ packer = NoPacker
    /\ sorted_order = <<>>
    /\ atlas_size = 0
    /\ pack_i = 0
    /\ packed_results = <<>>
    /\ run = 1
    /\ first_outcome = NoOutcome
    /\ schema_data = NoModel
    /\ pc = "idle"
    /\ ent_idx = 0
    /\ world_pivot = NoVec
    /\ current_parent_id = None
    /\ walk_len = 0
    /\ id_to_uuid = <<>>
    /\ groups = <<>>
    /\ bbmodel = EmptyDoc
    /\ imported = NoModel
    /\ uv_pc = "idle"
    /\ v3_face_name = None
    /\ normalized_uvs = <<>>
    /\ atlas_w = 0
    /\ atlas_h = 0
    /\ pixel_uv = <<>>
    /\ face_uv = <<>>
    /\ gltf_uv = <<>>

PackSpec == PackInit /\ [][PackNext]_vars

\* The interpreter runs a started call on: no step of it waits for anything.
PackFairSpec == PackSpec /\ WF_vars(PackNext)

\* ============================================================== UV mapping

\* UV coordinates are multiples of 1 / UVGrid; a normalized coordinate read
\* back from pixels is the fraction <<pixels, texture size>>.
UVGrid == 2 ^ 5
UValues == {0, 1, 16, 24, UVGrid, UVGrid + 8}

\* FaceTexture: uv is a list of floats, min_length = 4, max_length = 4.
FaceTextureValid(uv) == Len(uv) = 4

\* The uv lists a FaceTexture is constructed from.
UVLists == (UValues \X UValues \X UValues \X UValues) \cup ({0} \X {0} \X UValues)
AtlasSizes == {16, 64}

BBMODEL_FLIP_H == {"left"}
BBMODEL_FLIP_V == {"front", "back", "left", "right", "top", "bottom"}

\* round(num / den) as Python rounds: to the nearest integer, a tie to the
\* even one (num >= 0, den > 0).
RoundHalfEven(num, den) ==
    LET q == num \div den
        r == num % den
    IN IF 2 * r < den THEN q
       ELSE IF 2 * r > den THEN q + 1
       ELSE IF q % 2 = 0 THEN q ELSE q + 1

\* to_bbmodel with the right face mirrored like the left one.
to_bbmodel_mirrors_both_sides(uvs, face_name, w, h) ==
    LET x1 == RoundHalfEven(uvs[1] * w, UVGrid)
        y1 == RoundHalfEven(uvs[2] * h, UVGrid)
        x2 == RoundHalfEven(uvs[3] * w, UVGrid)
        y2 == RoundHalfEven(uvs[4] * h, UVGrid)
    IN IF face_name \in {"left", "right"} THEN <<x2, y2, x1, y1>> ELSE <<x1, y2, x2, y1>>

\* to_bbmodel: int(round(u * atlas_w)) for each coordinate, then the flips.
to_bbmodel(uvs, face_name, w, h) ==
    LET x1 == RoundHalfEven(uvs[1] * w, UVGrid)
        y1 == RoundHalfEven(uvs[2] * h, UVGrid)
        x2 == RoundHalfEven(uvs[3] * w, UVGrid)
        y2 == RoundHalfEven(uvs[4] * h, UVGrid)
        fx1 == IF face_name \in BBMODEL_FLIP_H THEN x2 ELSE x1
        fx2 == IF face_name \in BBMODEL_FLIP_H THEN x1 ELSE x2
        fy1 == IF face_name \in BBMODEL_FLIP_V THEN y2 ELSE y1
        fy2 == IF face_name \in BBMODEL_FLIP_V THEN y1 ELSE y2
    IN <<fx1, fy1, fx2, fy2>>

\* to_gltf that keeps V as it is.
to_gltf_without_flip(uvs) ==
    <<<<uvs[1], uvs[2]>>, <<uvs[3], uvs[2]>>, <<uvs[3], uvs[4]>>, <<uvs[1], uvs[4]>>>>

\* to_gltf: 1.0 - v is UVGrid - v on the grid; the four (u, v) corners.
to_gltf(uvs) ==
    LET u1 == uvs[1]
        v1 == uvs[2]
        u2 == uvs[3]
        v2 == uvs[4]
        v1_flipped == UVGrid - v1
        v2_flipped == UVGrid - v2
    IN <<<<u1, v1_flipped>>, <<u2, v1_flipped>>, <<u2, v2_flipped>>, <<u1, v2_flipped>>>>

\* _extract_face_uvs for one face: uv[i] / texture size, then the inverse
\* flips: the left face swaps U and V, every other face swaps V only.
ExtractFaceUV(uv, v3_face, texture_width, texture_height) ==
    LET u1 == <<uv[1], texture_width>>
        v1 == <<uv[2], texture_height>>
        u2 == <<uv[3], texture_width>>
        v2 == <<uv[4], texture_height>>
    IN IF v3_face = "left" THEN <<u2, v2, u1, v1>> ELSE <<u1, v2, u2, v1>>

UVInit ==
    /\ LaterIdle
    /\ uv_pc = "new"
    /\ v3_face_name \in FaceEnum
    /\ normalized_uvs \in UVLists
    /\ atlas_w \in AtlasSizes
    /\ atlas_h \in AtlasSizes
    /\ pixel_uv = <<>>
    /\ face_uv = <<>>
    /\ gltf_uv = <<>>
    /\ pack_fn = "idle"
    /\ pack_pc = "idle"
    /\ rects = <<>>
    /\ strips = <<>>
    /\ sorted_order = <<>>
    /\ atlas_size = 0
    /\ packer = NoPacker
    /\ pack_i = 0
    /\ packed_results = <<>>
    /\ run = 0
    /\ first_outcome = NoOutcome
    /\ schema_data = NoModel
    /\ pc = "idle"
    /\ ent_idx = 0
    /\ world_pivot = NoVec
    /\ current_parent_id = None
    /\ walk_len = 0
    /\ id_to_uuid = <<>>
    /\ groups = <<>>
    /\ bbmodel = EmptyDoc
    /\ imported = NoModel

\* FaceTexture(atlas_id=..., uv=...): the schema accepts the face or raises.
ConstructFaceTexture ==
    /\ uv_pc = "new"
    /\ uv_pc' = IF FaceTextureValid(normalized_uvs) THEN "canonical" ELSE "rejected"
    /\ UNCHANGED <<notUVVars, v3_face_name, normalized_uvs, atlas_w,
                   atlas_h, pixel_uv, face_uv, gltf_uv>>

\* _convert_cuboid_to_bbmodel, line 302: the face's pixel rectangle.
ExportFaceUV ==
    /\ uv_pc = "canonical"
    /\ pixel_uv' = to_bbmodel(normalized_uvs, v3_face_name, atlas_w, atlas_h)
    /\ uv_pc' = "pixels"
    /\ UNCHANGED <<notUVVars, v3_face_name, normalized_uvs, atlas_w,
                   atlas_h, face_uv, gltf_uv>>

\* import_bbmodel, line 193, with the resolution the document was written with.
ImportFaceUV ==
    /\ uv_pc = "pixels"
    /\ face_uv' = ExtractFaceUV(pixel_uv, v3_face_name, atlas_w, atlas_h)
    /\ uv_pc' = "normalized"
    /\ UNCHANGED <<notUVVars, v3_face_name, normalized_uvs, atlas_w,
                   atlas_h, pixel_uv, gltf_uv>>

\* The mesh builder of the glTF export asks for the corners of the face.
FaceCornersForGltf ==
    /\ uv_pc = "canonical"
    /\ gltf_uv' = to_gltf(normalized_uvs)
    /\ uv_pc' = "corners"
    /\ UNCHANGED <<notUVVars, v3_face_name, normalized_uvs, atlas_w,
                   atlas_h, pixel_uv, face_uv>>

UVNext == ConstructFaceTexture \/ ExportFaceUV \/ ImportFaceUV \/ FaceCornersForGltf

UVSpec == UVInit /\ [][UVNext]_vars

\* ================================================================ rotations

\* Angles are whole thousandths of a degree.
MilliDeg == 10 ^ 3

\* The real numbers of the quaternions tried are (a + b * sqrt(2)) / d, kept
\* as <<a, b, d>> with d > 0 in lowest terms: the sines and cosines of the
\* multiples of 45 degrees and their sums and products, all exact.
Abs(n) == IF n < 0 THEN -n ELSE n

RECURSIVE Gcd(_, _)
Gcd(m, n) == IF n = 0 THEN m ELSE Gcd(n, m % n)

Q2(a, b, d) ==
    LET g == Gcd(Gcd(Abs(a), Abs(b)), d)
    IN <<a \div g, b \div g, d \div g>>

Q2Zero == <<0, 0, 1>>
Q2One == <<1, 0, 1>>
Q2Half == <<1, 0, 2>>
Q2HalfSqrt2 == <<0, 1, 2>>

Q2Neg(p) == <<-p[1], -p[2], p[3]>>
Q2Add(p, q) == Q2(p[1] * q[3] + q[1] * p[3], p[2] * q[3] + q[2] * p[3], p[3] * q[3])
Q2Sub(p, q) == Q2Add(p, Q2Neg(q))
Q2Mul(p, q) == Q2(p[1] * q[1] + 2 * p[2] * q[2], p[1] * q[2] + p[2] * q[1], p[3] * q[3])
Q2Int(n, p) == Q2(n * p[1], n * p[2], p[3])

Sign(n) == IF n > 0 THEN 1 ELSE IF n < 0 THEN -1 ELSE 0

\* The sign of a + b * sqrt(2): where a and b pull apart, the larger of
\* a * a and 2 * b * b decides.
Q2Sign(p) ==
    IF Sign(p[1]) = Sign(p[2]) \/ p[2] = 0 THEN Sign(p[1])
    ELSE IF p[1] = 0 THEN Sign(p[2])
    ELSE IF p[1] * p[1] > 2 * p[2] * p[2] THEN Sign(p[1]) ELSE Sign(p[2])

Q2Less(p, q) == Q2Sign(Q2Sub(p, q)) < 0
Q2Abs(p) == IF Q2Sign(p) < 0 THEN Q2Neg(p) ELSE p

\* math.sqrt on the squares met here.
Q2Sqrt(p) ==
    CHOOSE r \in {Q2Zero, Q2Half, Q2HalfSqrt2, Q2One, <<0, 1, 1>>, <<2, 0, 1>>} :
        Q2Mul(r, r) = p

\* math.degrees(math.atan2(s, c)) where both arguments are 0 or equal in
\* size. atan2(0, 0) is 0 or +-180 by the signs of the zeros, which the
\* rounding of the sums before it decides.
Atan2Deg(s, c) ==
    LET ss == Q2Sign(s)
        cs == Q2Sign(c)
    IN IF ss = 0 /\ cs = 0 THEN {0, 180 * MilliDeg, -180 * MilliDeg}
       ELSE IF ss = 0 THEN {IF cs > 0 THEN 0 ELSE 180 * MilliDeg}
       ELSE IF cs = 0 THEN {ss * 90 * MilliDeg}
       ELSE IF Q2Abs(s) = Q2Abs(c)
            THEN {IF cs > 0 THEN ss * 45 * MilliDeg ELSE ss * 135 * MilliDeg}
       ELSE {}

\* math.degrees(math.asin(s)) strictly inside (-1, 1).
AsinDeg(s) ==
    LET a == Q2Abs(s)
    IN Q2Sign(s) * (IF a = Q2Zero THEN 0
                    ELSE IF a = Q2Half THEN 30 * MilliDeg
                    ELSE 45 * MilliDeg)

\* math.degrees(math.acos(d)) on [0, 1].
AcosDeg(d) ==
    IF d = Q2One THEN 0
    ELSE IF d = Q2HalfSqrt2 THEN 45 * MilliDeg
    ELSE IF d = Q2Half THEN 60 * MilliDeg
    ELSE 90 * MilliDeg

\* math.cos and math.sin of math.radians(a), a multiple of 45 degrees.
CosDeg(a) ==
    LET k == Abs(a) \div (45 * MilliDeg)
    IN IF k = 0 THEN Q2One
       ELSE IF k = 1 THEN Q2HalfSqrt2
       ELSE IF k = 2 THEN Q2Zero
       ELSE IF k = 3 THEN Q2Neg(Q2HalfSqrt2)
       ELSE Q2Neg(Q2One)

SinDeg(a) ==
    LET k == Abs(a) \div (45 * MilliDeg)
        size == IF k = 0 \/ k = 4 THEN Q2Zero
                ELSE IF k = 2 THEN Q2One
                ELSE Q2HalfSqrt2
    IN IF a < 0 THEN Q2Neg(size) ELSE size

\* round(angle_deg, 2), to the even hundredth on a tie.
Round2(a) ==
    LET q == a \div 10
        r == a % 10
    IN IF r < 5 THEN 10 * q
       ELSE IF r > 5 THEN 10 * (q + 1)
       ELSE IF q % 2 = 0 THEN 10 * q ELSE 10 * (q + 1)

RECURSIVE WhileAbove180(_)
WhileAbove180(a) ==
    IF a > 180 * MilliDeg THEN WhileAbove180(a - 360 * MilliDeg) ELSE a

RECURSIVE WhileNotAboveMinus180(_)
WhileNotAboveMinus180(a) ==
    IF a <= -180 * MilliDeg THEN WhileNotAboveMinus180(a + 360 * MilliDeg) ELSE a

normalize_angle(a) == Round2(WhileNotAboveMinus180(WhileAbove180(a)))

QuatDot(p, q) ==
    Q2Add(Q2Add(Q2Mul(p[1], q[1]), Q2Mul(p[2], q[2])),
          Q2Add(Q2Mul(p[3], q[3]), Q2Mul(p[4], q[4])))

\* Division by the magnitude, which here is 0, 1/2, 1 or 2.
Q2Div(p, m) ==
    IF m = Q2One THEN p
    ELSE IF m = Q2Half THEN Q2Int(2, p)
    ELSE Q2Mul(p, Q2Half)

normalize_quaternion(q) ==
    LET magnitude == Q2Sqrt(QuatDot(q, q))
        normalized == [i \in 1..4 |-> Q2Div(q[i], magnitude)]
    IN IF magnitude = Q2Zero THEN <<Q2One, Q2Zero, Q2Zero, Q2Zero>>
       ELSE IF Q2Sign(normalized[1]) < 0
            THEN [i \in 1..4 |-> Q2Neg(normalized[i])]
       ELSE normalized

quaternion_angular_error(q1, q2) ==
    LET q1_norm == normalize_quaternion(q1)
        q2_norm == normalize_quaternion(q2)
        dot == Q2Abs(QuatDot(q1_norm, q2_norm))
        clamped == IF Q2Less(Q2One, dot) THEN Q2One ELSE dot
    IN 2 * AcosDeg(clamped)

\* The Euler angles _quaternion_to_euler_xyz_fallback can return for q: a
\* set, for the sake of atan2(0, 0).
quaternion_to_euler_xyz_fallback(q) ==
    LET n == normalize_quaternion(q)
        w == n[1]
        x == n[2]
        y == n[3]
        z == n[4]
        sinr_cosp == Q2Int(2, Q2Add(Q2Mul(w, x), Q2Mul(y, z)))
        cosr_cosp == Q2Sub(Q2One, Q2Int(2, Q2Add(Q2Mul(x, x), Q2Mul(y, y))))
        sinp == Q2Int(2, Q2Sub(Q2Mul(w, y), Q2Mul(z, x)))
        pitch == IF ~Q2Less(Q2Abs(sinp), Q2One)
                 THEN Q2Sign(sinp) * 90 * MilliDeg
                 ELSE AsinDeg(sinp)
        siny_cosp == Q2Int(2, Q2Add(Q2Mul(w, z), Q2Mul(x, y)))
        cosy_cosp == Q2Sub(Q2One, Q2Int(2, Q2Add(Q2Mul(y, y), Q2Mul(z, z))))
    IN {<<normalize_angle(roll), normalize_angle(pitch), normalize_angle(yaw)>> :
            roll \in Atan2Deg(sinr_cosp, cosr_cosp),
            yaw \in Atan2Deg(siny_cosp, cosy_cosp)}

euler_to_quaternion_xyz_fallback(e) ==
    LET cr == CosDeg(e[1] \div 2)
        sr == SinDeg(e[1] \div 2)
        cp == CosDeg(e[2] \div 2)
        sp == SinDeg(e[2] \div 2)
        cy == CosDeg(e[3] \div 2)
        sy == SinDeg(e[3] \div 2)
        w == Q2Sub(Q2Mul(Q2Mul(cr, cp), cy), Q2Mul(Q2Mul(sr, sp), sy))
        x == Q2Add(Q2Mul(Q2Mul(sr, cp), cy), Q2Mul(Q2Mul(cr, sp), sy))
        y == Q2Sub(Q2Mul(Q2Mul(cr, sp), cy), Q2Mul(Q2Mul(sr, cp), sy))
        z == Q2Add(Q2Mul(Q2Mul(cr, cp), sy), Q2Mul(Q2Mul(sr, sp), cy))
    IN normalize_quaternion(<<w, x, y, z>>)

\* euler_to_quaternion without the library: the fallback, then the sign
\* convention once more.
euler_to_quaternion(e) == normalize_quaternion(euler_to_quaternion_xyz_fallback(e))

\* The default of is_gimbal_lock's tolerance, 0.01 degrees.
DefaultTolerance == 10

is_gimbal_lock_one_sided(e, tolerance) == Abs(e[2] - 90 * MilliDeg) < tolerance

is_gimbal_lock(e, tolerance) == Abs(Abs(e[2]) - 90 * MilliDeg) < tolerance

\* The quaternions tried: those of length 1 with every component 0, +-1/2,
\* +-sqrt(2)/2 or +-1, the 48 that turn a cube onto itself.
Q2Components ==
    {Q2Zero, Q2Half, Q2Neg(Q2Half), Q2HalfSqrt2, Q2Neg(Q2HalfSqrt2), Q2One, Q2Neg(Q2One)}

UnitQuaternions ==
    {q \in Q2Components \X Q2Components \X Q2Components \X Q2Components :
        /\ QuatDot(q, q) = Q2One
        /\ \A i, j \in 1..4 :
              q[i] = Q2Zero \/ q[j] = Q2Zero \/ Q2Abs(q[i]) = Q2Abs(q[j])}

\* What math.degrees hands to _normalize_angle: atan2 and asin lie in
\* [-180, 180] degrees. No angle tried is a tie for round.
RawAngles ==
    {-180 * MilliDeg, -179999, -179997, -179994, -179991, -90 * MilliDeg, -4, 0, 4, 6,
     45 * MilliDeg, 89996, 90 * MilliDeg, 179994, 179996, 179999, 180 * MilliDeg}

\* The Euler angles is_gimbal_lock is asked about.
GimbalPitches ==
    {0, 45 * MilliDeg, 89 * MilliDeg, 89990, 89995, 90 * MilliDeg, 90005, 90010,
     91 * MilliDeg, -45 * MilliDeg, -89 * MilliDeg, -89995, -90 * MilliDeg, -90010}

GimbalEulers ==
    {<<r, p, y>> : r \in {0, 90 * MilliDeg}, p \in GimbalPitches, y \in {0, -90 * MilliDeg}}

RotInit ==
    /\ NotRotIdle
    /\ rot_fn \in {"test_roundtrip_accuracy", "_normalize_angle", "is_gimbal_lock"}
    /\ rot_pc = "start"
    /\ quat \in IF rot_fn = "test_roundtrip_accuracy" THEN UnitQuaternions ELSE {<<>>}
    /\ euler \in IF rot_fn = "is_gimbal_lock" THEN GimbalEulers ELSE {<<>>}
    /\ angle_deg \in IF rot_fn = "_normalize_angle" THEN RawAngles ELSE {0}
    /\ final_quat = <<>>
    /\ error_deg = 0
    /\ normalized_angle = 0
    /\ gimbal = FALSE

\* test_roundtrip_accuracy, first line: quaternion_to_euler(quat).
QuaternionToEuler ==
    /\ rot_fn = "test_roundtrip_accuracy"
    /\ rot_pc = "start"
    /\ euler' \in quaternion_to_euler_xyz_fallback(quat)
    /\ rot_pc' = "euler"
    /\ UNCHANGED <<notRotVars, rot_fn, quat, final_quat, error_deg, angle_deg,
                   normalized_angle, gimbal>>

\* test_roundtrip_accuracy, the rest: euler_to_quaternion(euler) and the
\* angular error between what went in and what came back.
EulerToQuaternion ==
    /\ rot_fn = "test_roundtrip_accuracy"
    /\ rot_pc = "euler"
    /\ final_quat' = euler_to_quaternion(euler)
    /\ error_deg' = quaternion_angular_error(quat, final_quat')
    /\ rot_pc' = "done"
    /\ UNCHANGED <<notRotVars, rot_fn, quat, euler, angle_deg, normalized_angle, gimbal>>

NormalizeAngle ==
    /\ rot_fn = "_normalize_angle"
    /\ rot_pc = "start"
    /\ normalized_angle' = normalize_angle(angle_deg)
    /\ rot_pc' = "done"
    /\ UNCHANGED <<notRotVars, rot_fn, quat, euler, final_quat, error_deg, angle_deg,
                   gimbal>>

IsGimbalLock ==
    /\ rot_fn = "is_gimbal_lock"
    /\ rot_pc = "start"
    /\ gimbal' = is_gimbal_lock(euler, DefaultTolerance)
    /\ rot_pc' = "done"
    /\ UNCHANGED <<notRotVars, rot_fn, quat, euler, final_quat, error_deg, angle_deg,
                   normalized_angle>>

RotNext == QuaternionToEuler \/ EulerToQuaternion \/ NormalizeAngle \/ IsGimbalLock

RotSpec == RotInit /\ [][RotNext]_vars

\* ==================================================== coordinate conventions

\* Components of the positions and quaternions tried: -MaxCoord..MaxCoord.
MaxCoord == 1
Coords == (-MaxCoord)..MaxCoord

\* transform_position_blender_to_v3: [x, z, -y].
transform_position_blender_to_v3(p) == <<p[1], p[3], -p[2]>>

\* transform_position_v3_to_blender: [x, -z, y].
transform_position_v3_to_blender(p) == <<p[1], -p[3], p[2]>>

\* transform_quaternion_blender_to_v3: [w, x, z, -y].
transform_quaternion_blender_to_v3(q) == <<q[1], q[2], q[4], -q[3]>>

\* The inverse written as a copy of the forward mapping.
transform_quaternion_same_as_forward(q) == <<q[1], q[2], q[4], -q[3]>>
\* transform_quaternion_v3_to_blender: [w, x, -z, y].
transform_quaternion_v3_to_blender(q) == <<q[1], q[2], -q[4], q[3]>>

CoordInit ==
    /\ NotCoordIdle
    /\ coord_pc = "start"
    /\ coord_dir \in {"v3_to_blender", "blender_to_v3"}
    /\ pos_in \in Coords \X Coords \X Coords
    /\ quat_in \in Coords \X Coords \X Coords \X Coords
    /\ pos_out = <<>>
    /\ quat_out = <<>>

\* The position and the quaternion cross to the other convention.
TransformThere ==
    /\ coord_pc = "start"
    /\ pos_out' = IF coord_dir = "v3_to_blender"
                  THEN transform_position_v3_to_blender(pos_in)
                  ELSE transform_position_blender_to_v3(pos_in)
    /\ quat_out' = IF coord_dir = "v3_to_blender"
                   THEN transform_quaternion_v3_to_blender(quat_in)
                   ELSE transform_quaternion_blender_to_v3(quat_in)
    /\ coord_pc' = "there"
    /\ UNCHANGED <<notCoordVars, coord_dir, pos_in, quat_in>>

\* They cross back with the transforms of the other direction.
TransformBack ==
    /\ coord_pc = "there"
    /\ pos_out' = IF coord_dir = "v3_to_blender"
                  THEN transform_position_blender_to_v3(pos_out)
                  ELSE transform_position_v3_to_blender(pos_out)
    /\ quat_out' = IF coord_dir = "v3_to_blender"
                   THEN transform_quaternion_blender_to_v3(quat_out)
                   ELSE transform_quaternion_v3_to_blender(quat_out)
    /\ coord_pc' = "back"
    /\ UNCHANGED <<notCoordVars, coord_dir, pos_in, quat_in>>

CoordNext == TransformThere \/ TransformBack

CoordSpec == CoordInit /\ [][CoordNext]_vars

\* ------------------------------------------------------- specifications

\* A conversion: the packers are not in use.
Init ==
    /\ LaterIdle
    /\ schema_data \in StructureModels \cup PayloadModels
    /\ pc = "validate"
    /\ ent_idx = 0
    /\ world_pivot = NoVec
    /\ current_parent_id = None
    /\ walk_len = 0
    /\ id_to_uuid = <<>>
    /\ groups = <<>>
    /\ bbmodel = EmptyDoc
    /\ imported = NoModel
    /\ pack_fn = "idle"
    /\ pack_pc = "idle"
    /\ rects = <<>>
    /\ strips = <<>>
    /\ sorted_order = <<>>
    /\ atlas_size = 0
    /\ packer = NoPacker
    /\ pack_i = 0
    /\ packed_results = <<>>
    /\ run = 0
    /\ first_outcome = NoOutcome
    /\ uv_pc = "idle"
    /\ v3_face_name = None
    /\ normalized_uvs = <<>>
    /\ atlas_w = 0
    /\ atlas_h = 0
    /\ pixel_uv = <<>>
    /\ face_uv = <<>>
    /\ gltf_uv = <<>>


Next ==
    \/ Validate
    \/ WalkBegin
    \/ WalkStep
    \/ ConvertEntity
    \/ FinishExport
    \/ Import

Spec == Init /\ [][Next]_vars


\* ================================================================ box UV atlas

\* Bounds of the atlas inputs.
MaxClayEntities == 2
MaxPx == 3

\* calculate_cuboid_pixels: max(1, int(round(size * texel_density))) per axis.
calculate_cuboid_pixels(from_coords, to_coords, texel_density) ==
    [i \in 1..3 |->
        LET size == Abs(to_coords[i] - from_coords[i])
            px == RoundHalfEven(size * texel_density, UnitsPerBlock)
        IN IF px >= 1 THEN px ELSE 1]

\* The strip layout of the module's header, with Back before Front in row 1.
get_box_uv_face_rects_back_first(w_px, h_px, d_px, strip_x, strip_y) ==
    LET row_y == strip_y + d_px
    IN [top |-> <<strip_x + d_px, strip_y, strip_x + d_px + w_px, strip_y + d_px>>,
        bottom |-> <<strip_x + d_px + w_px, strip_y,
                     strip_x + d_px + w_px + w_px, strip_y + d_px>>,
        left |-> <<strip_x, row_y, strip_x + d_px, row_y + h_px>>,
        back |-> <<strip_x + d_px, row_y, strip_x + d_px + w_px, row_y + h_px>>,
        right |-> <<strip_x + d_px + w_px, row_y,
                    strip_x + d_px + w_px + d_px, row_y + h_px>>,
        front |-> <<strip_x + d_px + w_px + d_px, row_y,
                    strip_x + d_px + w_px + d_px + w_px, row_y + h_px>>]

\* get_box_uv_face_rects with Bottom at the x offset of Top.
get_box_uv_face_rects_bottom_on_top(w_px, h_px, d_px, strip_x, strip_y) ==
    LET row_y == strip_y + d_px
    IN [top |-> <<strip_x + d_px, strip_y, strip_x + d_px + w_px, strip_y + d_px>>,
        bottom |-> <<strip_x + d_px, strip_y, strip_x + d_px + w_px, strip_y + d_px>>,
        left |-> <<strip_x, row_y, strip_x + d_px, row_y + h_px>>,
        front |-> <<strip_x + d_px, row_y, strip_x + d_px + w_px, row_y + h_px>>,
        right |-> <<strip_x + d_px + w_px, row_y,
                    strip_x + d_px + w_px + d_px, row_y + h_px>>,
        back |-> <<strip_x + d_px + w_px + d_px, row_y,
                   strip_x + d_px + w_px + d_px + w_px, row_y + h_px>>]

\* get_box_uv_face_rects: face name -> (x1, y1, x2, y2).
get_box_uv_face_rects(w_px, h_px, d_px, strip_x, strip_y) ==
    LET top_x == strip_x + d_px
        top_y == strip_y
        bottom_x == strip_x + d_px + w_px
        bottom_y == strip_y
        row_y == strip_y + d_px
        left_x == strip_x
        front_x == strip_x + d_px
        right_x == strip_x + d_px + w_px
        back_x == strip_x + d_px + w_px + d_px
    IN [top |-> <<top_x, top_y, top_x + w_px, top_y + d_px>>,
        bottom |-> <<bottom_x, bottom_y, bottom_x + w_px, bottom_y + d_px>>,
        left |-> <<left_x, row_y, left_x + d_px, row_y + h_px>>,
        front |-> <<front_x, row_y, front_x + w_px, row_y + h_px>>,
        right |-> <<right_x, row_y, right_x + d_px, row_y + h_px>>,
        back |-> <<back_x, row_y, back_x + w_px, row_y + h_px>>]

RECURSIVE PackAll(_, _, _, _)
\* all(packer.pack(strip) for strip in sorted_strips), from the i-th on: it
\* stops at the first strip that does not fit.
PackAll(p, ss, order, i) ==
    IF i > Len(order) THEN [ok |-> TRUE, strips |-> ss]
    ELSE LET res == StripPackerPack(p, ss[order[i]])
         IN IF res.ok
            THEN PackAll(res.packer, [ss EXCEPT ![order[i]] = res.strip], order, i + 1)
            ELSE [ok |-> FALSE, strips |-> ss]

RECURSIVE PackStripsLoop(_, _, _)
\* The while loop of pack_strips, and the RuntimeError after it.
PackStripsLoop(ss, order, size) ==
    IF size > StripMaxSize THEN [raised |-> TRUE, atlas_size |-> size, strips |-> ss]
    ELSE LET reset == [i \in 1..Len(ss) |->
                          [ss[i] EXCEPT !.packed = FALSE, !.x = 0, !.y = 0]]
             res == PackAll(StripPacker(size, size), reset, order, 1)
         IN IF res.ok
            THEN [raised |-> FALSE, atlas_size |-> size, strips |-> res.strips]
            ELSE PackStripsLoop(res.strips, order, NextAtlasSize(size))

\* pack_strips as one call: the atlas size it returns and the strips as it
\* leaves them.
pack_strips(ss) ==
    IF ss = <<>> THEN [raised |-> FALSE, atlas_size |-> StripMinSize, strips |-> ss]
    ELSE PackStripsLoop(ss,
                        SortedDescending(ss, LAMBDA st : <<st.strip_h, st.strip_w>>),
                        StripStartSize(ss))

\* next((e for e in v3_json['entities'] if e['id'] == entity_id), None).
FirstWithId(entities, entity_id) ==
    LET hits == {i \in 1..Len(entities) : entities[i].id = entity_id}
    IN IF hits = {} THEN 0 ELSE CHOOSE i \in hits : \A j \in hits : i <= j

\* x / atlas_size, kept as the fraction <<x, atlas_size>>.
NormalizedRect(rect, size) == [k \in 1..4 |-> <<rect[k], size>>]

\* One turn of the last loop of generate_clay_atlas: the UVs of one strip,
\* stored on the first entity that has the strip's id.
StoreStripUVs(entities, strip, size) ==
    LET i == FirstWithId(entities, strip.entity_id)
        boxes == get_box_uv_face_rects(strip.w_px, strip.h_px, strip.d_px,
                                       strip.x, strip.y)
    IN IF i = 0 \/ "faces" \notin DOMAIN entities[i] THEN entities
       ELSE [entities EXCEPT ![i].faces =
                [f \in DOMAIN @ |->
                    IF f \in DOMAIN boxes
                    THEN [atlas_id |-> "main", uv |-> NormalizedRect(boxes[f], size)]
                    ELSE @[f]]]

RECURSIVE StoreAllUVs(_, _, _, _)
StoreAllUVs(entities, ss, k, size) ==
    IF k > Len(ss) THEN entities
    ELSE StoreAllUVs(StoreStripUVs(entities, ss[k], size), ss, k + 1, size)

\* The strips generate_clay_atlas builds, one per cuboid, in entity order.
BuildStrips(entities, texel_density) ==
    LET cuboids == SelectSeq(entities, LAMBDA e : e.type = "cuboid")
    IN [k \in 1..Len(cuboids) |->
          LET px == calculate_cuboid_pixels(cuboids[k].from_, cuboids[k].to, texel_density)
          IN CuboidStrip(cuboids[k].id, px[1], px[2], px[3])]

MainAtlas(data, size) ==
    [main |-> [data |-> data, mime |-> "image/png", resolution |-> <<size, size>>]]

\* generate_clay_atlas: the dict it returns and the strips it packed, or the
\* RuntimeError of pack_strips.
generate_clay_atlas(json) ==
    LET built == BuildStrips(json.entities, json.meta.texel_density)
        packed == pack_strips(built)
    IN IF built = <<>>
       THEN [raised |-> FALSE, strips |-> built,
             json |-> [json EXCEPT !.meta.atlases = MainAtlas("", 16)]]
       ELSE IF packed.raised
       THEN [raised |-> TRUE, strips |-> packed.strips, json |-> json]
       ELSE [raised |-> FALSE, strips |-> packed.strips,
             json |-> [json EXCEPT
                        !.meta.atlases = MainAtlas("png", packed.atlas_size),
                        !.entities = StoreAllUVs(@, packed.strips, 1, packed.atlas_size)]]

\* ------------------------------------------------------ atlas inputs

ClayIds == {"a", "b"}

\* The sizes of the cuboids tried, from = [0, 0, 0]: the unit cube, one with
\* a side that rounds to no pixel, an oblong one and one too wide to pack.
ClaySizes ==
    {<<UnitsPerBlock, UnitsPerBlock, UnitsPerBlock>>,
     <<UnitsPerBlock \div 32, 0, HalfBlock>>,
     <<2 * UnitsPerBlock, UnitsPerBlock, HalfBlock>>,
     <<64 * UnitsPerBlock, UnitsPerBlock, UnitsPerBlock>>}

\* The faces of a cuboid before any atlas: the placeholder rectangle.
BlankFaces ==
    [f \in FaceEnum |-> [atlas_id |-> "", uv |-> <<<<0, 1>>, <<0, 1>>, <<1, 1>>, <<1, 1>>>>]]

ClayEntities ==
    {[id |-> i, type |-> "group"] : i \in ClayIds}
        \cup {[id |-> i, type |-> "cuboid", from_ |-> <<0, 0, 0>>, to |-> sz,
               faces |-> BlankFaces] : i \in ClayIds, sz \in ClaySizes}

ClayModels ==
    {[meta |-> [texel_density |-> td, atlases |-> <<>>], entities |-> es] :
        td \in TexelDensities,
        es \in UNION {[1..n -> ClayEntities] : n \in 1..MaxClayEntities}}

BoxArgs == (1..MaxPx) \X (1..MaxPx) \X (1..MaxPx) \X {0, 5} \X {0, 7}

ClayInit ==
    /\ NotClayIdle
    /\ clay_fn \in {"get_box_uv_face_rects", "generate_clay_atlas"}
    /\ clay_pc = "start"
    /\ v3_json \in IF clay_fn = "generate_clay_atlas" THEN ClayModels ELSE {<<>>}
    /\ box_args \in IF clay_fn = "get_box_uv_face_rects" THEN BoxArgs ELSE {<<>>}
    /\ clay_strips = <<>>
    /\ face_rects = <<>>

GetBoxUVFaceRects ==
    /\ clay_fn = "get_box_uv_face_rects"
    /\ clay_pc = "start"
    /\ face_rects' = get_box_uv_face_rects(box_args[1], box_args[2], box_args[3],
                                           box_args[4], box_args[5])
    /\ clay_pc' = "done"
    /\ UNCHANGED <<notClayVars, clay_fn, v3_json, clay_strips, box_args>>

GenerateClayAtlas ==
    /\ clay_fn = "generate_clay_atlas"
    /\ clay_pc = "start"
    /\ LET res == generate_clay_atlas(v3_json)
       IN /\ v3_json' = res.json
          /\ clay_strips' = res.strips
          /\ clay_pc' = IF res.raised THEN "error" ELSE "done"
    /\ UNCHANGED <<notClayVars, clay_fn, box_args, face_rects>>

ClayNext == GetBoxUVFaceRects \/ GenerateClayAtlas

ClaySpec == ClayInit /\ [][ClayNext]_vars

\* ----------------------------------------------------- session statistics

MaxGenerations == 4
MinCodeLength == 20

\* What litellm.completion does for one request: it raises, or it returns an
\* answer whose code has code_len characters at a cost of tokens tokens.
LLMReplies ==
    [error : BOOLEAN, code_len : {0, MinCodeLength - 1, MinCodeLength},
     tokens : {1, 2}]

\* LLMClient.complete on a client with the given counters: the counters
\* afterwards, and whether the call raised.
complete(count, tokens, reply) ==
    IF reply.error
    THEN [raised |-> TRUE, call_count |-> count, total_tokens |-> tokens]
    ELSE [raised |-> FALSE, call_count |-> count + 1,
          total_tokens |-> tokens + reply.tokens]

\* LLMClient.get_stats of the persistent client.
get_stats == [call_count |-> call_count, total_tokens |-> total_tokens]

\* Blocksmith() : a ModelGenerator with a new LLMClient.
StatInit ==
    /\ PipeIdle /\ PackIdle /\ UVIdle /\ CoordIdle /\ RotIdle /\ ClayIdle
    /\ DslIdle
    /\ call_count = 0
    /\ total_tokens = 0
    /\ generated_ok = 0
    /\ stat_op = <<>>

\* Blocksmith.generate(prompt, model): ModelGenerator.generate sends the
\* request through a temporary client when model is given and through the
\* persistent one otherwise, and raises when the code is too short.
generate ==
    /\ call_count < MaxGenerations
    /\ generated_ok < MaxGenerations
    /\ \E model \in {None, "override"}, reply \in LLMReplies :
          LET temp_client == complete(0, 0, reply)
              own_client == complete(call_count, total_tokens, reply)
              llm_response == IF model # None THEN temp_client ELSE own_client
              raised == llm_response.raised \/ reply.code_len < MinCodeLength
          IN /\ call_count' = IF model # None THEN call_count
                              ELSE own_client.call_count
             /\ total_tokens' = IF model # None THEN total_tokens
                                ELSE own_client.total_tokens
             /\ generated_ok' = IF raised THEN generated_ok ELSE generated_ok + 1
             /\ stat_op' = [op |-> "generate", model |-> model, raised |-> raised]
    /\ UNCHANGED notStatVars

\* Blocksmith.reset_stats.
reset_stats ==
    /\ stat_op # <<>>
    /\ call_count' = 0
    /\ total_tokens' = 0
    /\ generated_ok' = 0
    /\ stat_op' = [op |-> "reset_stats", model |-> None, raised |-> FALSE]
    /\ UNCHANGED notStatVars

StatNext == generate \/ reset_stats

StatSpec == StatInit /\ [][StatNext]_vars

\* -------------------------------------------------- Python DSL converters

MaxDslEntities == 2
MaxConverts == 2

\* Entity ids, as the characters they are made of.
Quote == "\""
\* None where an id may stand; the empty string is as false as None.
NoId == <<>>
DslIds == {<<"a">>, <<"b">>, <<"q", Quote>>}

\* The entities of the models handed to V3ToPythonConverter.convert, with
\* the fields the generated calls carry beside the geometry; label = id.
DslEntities ==
    [id : DslIds, type : {"cuboid", "group"}, parent : {NoId} \cup DslIds]

DslModels ==
    {[meta |-> "MetaModel", entities |-> t] :
        t \in UNION {[1..n -> DslEntities] : n \in 1..MaxDslEntities}}

\* The empty dictionary import_python returns on an error.
EmptyDict == [meta |-> None, entities |-> <<>>]

\* ModelDefinition.model_validate(schema_data) of the converters: the
\* dictionary has a meta block and entities of the two types.
ModelValidates(data) ==
    /\ data.meta # None
    /\ \A k \in 1..Len(data.entities) :
          data.entities[k].type \in {"cuboid", "group"}

\* f'"{entity.id}"': the characters between two quotes, none escaped.
StringLiteral(s) == <<Quote>> \o s \o <<Quote>>

\* A line of generated code.
HeaderLine == [kind |-> "header", fn |-> None, id |-> NoId, parent |-> NoId]
FooterLine == [kind |-> "footer", fn |-> None, id |-> NoId, parent |-> NoId]

\* _generate_cuboid and _generate_group: the call with the id and, when the
\* entity has one, the parent.
GenerateCall(entity) ==
    [kind |-> "call", fn |-> entity.type, id |-> StringLiteral(entity.id),
     parent |-> IF entity.parent # NoId THEN StringLiteral(entity.parent)
                ELSE NoId]

\* V3ToPythonConverter(): the three fields are empty.
NewConverter == [entity_map |-> <<>>, root_entities |-> <<>>, code_lines |-> <<>>]

\* self.entity_map[entity.id] = entity, the dictionary kept in insertion order.
EntityMapHas(map, id) == \E k \in 1..Len(map) : map[k].id = id
EntityMapGet(map, id) == map[CHOOSE k \in 1..Len(map) : map[k].id = id]
EntityMapSet(map, e) ==
    IF EntityMapHas(map, e.id)
    THEN [k \in 1..Len(map) |-> IF map[k].id = e.id THEN e ELSE map[k]]
    ELSE Append(map, e)

RECURSIVE BuildEntityMap(_, _, _)
\* _build_entity_map: the map and the roots after the entities from the
\* k-th on were added to those the converter holds.
BuildEntityMap(conv, entities, k) ==
    IF k > Len(entities) THEN conv
    ELSE LET entity == entities[k]
         IN BuildEntityMap(
                [conv EXCEPT
                    !.entity_map = EntityMapSet(@, entity),
                    !.root_entities = IF entity.parent = NoId
                                      THEN Append(@, entity.id) ELSE @],
                entities, k + 1)

RECURSIVE ProcessEntity(_, _, _, _)
RECURSIVE ProcessChildren(_, _, _, _, _)
\* process_entity of _generate_entities.  st holds the set processed, the
\* code lines and whether an exception was raised: KeyError for an id the
\* map lacks, RecursionError for a chain of calls that cannot end.
ProcessEntity(map, entity_id, st, depth) ==
    IF st.raised \/ entity_id \in st.processed THEN st
    ELSE IF depth > 2 * Len(map) + 1 \/ ~EntityMapHas(map, entity_id)
    THEN [st EXCEPT !.raised = TRUE]
    ELSE LET entity == EntityMapGet(map, entity_id)
             st1 == IF entity.parent # NoId /\ entity.parent \notin st.processed
                    THEN ProcessEntity(map, entity.parent, st, depth + 1)
                    ELSE st
         IN IF st1.raised THEN st1
            ELSE ProcessChildren(map, entity_id, 1,
                    [st1 EXCEPT !.code_lines = Append(@, GenerateCall(entity)),
                                !.processed = @ \cup {entity_id}],
                    depth)

\* "for child_id, child in self.entity_map.items()" from the k-th item on.
ProcessChildren(map, entity_id, k, st, depth) ==
    IF st.raised \/ k > Len(map) THEN st
    ELSE ProcessChildren(map, entity_id, k + 1,
            IF map[k].parent = entity_id
            THEN ProcessEntity(map, map[k].id, st, depth + 1) ELSE st,
            depth)

RECURSIVE ProcessRoots(_, _, _, _)
\* "for root_id in self.root_entities" from the k-th root on.
ProcessRoots(map, roots, k, st) ==
    IF st.raised \/ k > Len(roots) THEN st
    ELSE ProcessRoots(map, roots, k + 1, ProcessEntity(map, roots[k], st, 1))

\* _generate_entities on a converter whose code lines are code_lines.
GenerateEntities(conv) ==
    ProcessRoots(conv.entity_map, conv.root_entities, 1,
                 [processed |-> {}, code_lines |-> conv.code_lines,
                  raised |-> FALSE])

\* V3ToPythonConverter.convert(schema_data) on the converter conv: whether it
\* raised, the converter afterwards, and the lines of the text returned.
V3ToPythonConverter_convert(conv, data) ==
    IF ~ModelValidates(data)
    THEN [raised |-> TRUE, conv |-> conv, python_code |-> <<>>]
    ELSE LET built == BuildEntityMap(conv, data.entities, 1)
             st == GenerateEntities(
                       [built EXCEPT !.code_lines = Append(@, HeaderLine)])
             lines == IF st.raised THEN st.code_lines
                      ELSE Append(st.code_lines, FooterLine)
         IN [raised |-> st.raised,
             conv |-> [built EXCEPT !.code_lines = lines],
             python_code |-> lines]

\* ---- import_python

\* Entity dictionaries a hand-written create_model may return: one the
\* schema accepts, one of an unknown type, one without an id.
GoodItem == [id |-> <<"a">>, type |-> "group", parent |-> NoId]
ItemLists ==
    {<<>>, <<GoodItem>>, <<[GoodItem EXCEPT !.type = "sphere"]>>,
     <<[GoodItem EXCEPT !.id = NoId]>>}

\* Hand-written DSL, by what running it does: exec raises, or the namespace
\* holds nothing, the variable entities, the function create_model or some
\* other function; the value, or what the call returns or raises.
WrittenPrograms ==
    {p \in [source : {"written"},
            raises : {None, "Exception", "BaseException"},
            defines : {"nothing", "entities", "create_model", "other"},
            call_raises : {None, "Exception", "BaseException"},
            is_list : BOOLEAN,
            items : ItemLists] :
        /\ (p.raises # None \/ p.defines = "nothing") =>
              (p.defines = "nothing" /\ p.call_raises = None
                  /\ p.is_list /\ p.items = <<>>)
        /\ p.defines = "entities" => p.call_raises = None
        /\ (~p.is_list \/ p.call_raises # None) => p.items = <<>>}

\* The text V3ToPythonConverter.convert returned.
GeneratedCode(lines) == [source |-> "converter", lines |-> lines]

\* How Python reads the text of a string literal: the characters up to the
\* next quote.  A literal with a quote inside is a syntax error.
ReadsAsString(lit) == \A k \in 2..(Len(lit) - 1) : lit[k] # Quote
StringValue(lit) == SubSeq(lit, 2, Len(lit) - 1)

\* The cuboid and group helpers of PythonExecutor for one generated call.
HelperCall(line) ==
    [id |-> StringValue(line.id), type |-> line.fn,
     parent |-> IF line.parent = NoId THEN NoId ELSE StringValue(line.parent)]

\* exec(code, self.safe_globals, local_namespace): what it raises and what
\* the namespace holds.  In generated text the last create_model is the one
\* that stays defined.
Exec(code) ==
    IF code.source = "written" THEN code
    ELSE LET lines == code.lines
             calls == {k \in 1..Len(lines) : lines[k].kind = "call"}
             last == CHOOSE h \in 1..Len(lines) :
                        /\ lines[h].kind = "header"
                        /\ \A j \in (h + 1)..Len(lines) : lines[j].kind # "header"
             body == SelectSeq(SubSeq(lines, last + 1, Len(lines)),
                               LAMBDA l : l.kind = "call")
             well_formed ==
                \A k \in calls :
                    /\ ReadsAsString(lines[k].id)
                    /\ lines[k].parent # NoId => ReadsAsString(lines[k].parent)
         IN IF ~well_formed
            THEN [source |-> "converter", raises |-> "Exception",
                  defines |-> "nothing", call_raises |-> None,
                  is_list |-> TRUE, items |-> <<>>]
            ELSE [source |-> "converter", raises |-> None,
                  defines |-> "create_model", call_raises |-> None,
                  is_list |-> TRUE,
                  items |-> [k \in 1..Len(body) |-> HelperCall(body[k])]]

\* PythonExecutor.execute_python_code: raised is what leaves the function,
\* entities the list it returns; returned_list is false after the handler
\* that logs an Exception and returns nothing.
execute_python_code(code) ==
    LET ran == Exec(code)
        NoEntities == [raised |-> None, returned_list |-> FALSE, entities |-> <<>>]
    IN IF ran.raises = "BaseException"
       THEN [raised |-> "BaseException", returned_list |-> FALSE, entities |-> <<>>]
       ELSE IF ran.raises = "Exception" THEN NoEntities
       ELSE IF ran.defines = "nothing" THEN NoEntities
       ELSE IF ran.defines = "other" /\ ran.call_raises # None THEN NoEntities
       ELSE IF ran.call_raises = "BaseException"
       THEN [raised |-> "BaseException", returned_list |-> FALSE, entities |-> <<>>]
       ELSE IF ran.call_raises = "Exception" THEN NoEntities
       ELSE IF ~ran.is_list \/ ran.items = <<>> THEN NoEntities
       ELSE [raised |-> None, returned_list |-> TRUE, entities |-> ran.items]

\* CuboidEntity(**entity_dict) and GroupEntity(**entity_dict) accept the
\* dictionary.
EntityDictValid(d) == d.id # NoId /\ d.type \in {"cuboid", "group"}

\* import_python with a handler that raises again.
import_python_reraising(code) ==
    LET got == execute_python_code(code)
    IN IF got.raised # None
       THEN [raised |-> got.raised, json_data |-> EmptyDict]
       ELSE IF ~got.returned_list
       THEN [raised |-> "Exception", json_data |-> EmptyDict]
       ELSE IF \E k \in 1..Len(got.entities) : ~EntityDictValid(got.entities[k])
       THEN [raised |-> "Exception", json_data |-> EmptyDict]
       ELSE [raised |-> None,
             json_data |-> [meta |-> "MetaModel", entities |-> got.entities]]

\* import_python: what it raises, and the dictionary it returns.
import_python(code) ==
    LET got == execute_python_code(code)
    IN IF got.raised # None
       THEN [raised |-> got.raised, json_data |-> EmptyDict]
       ELSE IF ~got.returned_list
       THEN [raised |-> None, json_data |-> EmptyDict]
       ELSE IF \E k \in 1..Len(got.entities) : ~EntityDictValid(got.entities[k])
       THEN [raised |-> None, json_data |-> EmptyDict]
       ELSE [raised |-> None,
             json_data |-> [meta |-> "MetaModel", entities |-> got.entities]]

\* ---- convert(input_path, output_path)

OutputFormats == {"json", "bbmodel", "glb", "gltf", "py"}

\* _save_from_blockjson: what it raises and the format of the file it
\* wrote, None when it wrote none.  exporter_ok is whether the Blockbench
\* or Blender exporter succeeds on a dictionary that validates, and whether
\* Blender succeeds on one that does not.
save_from_blockjson(block_json, format, exporter_ok) ==
    LET wrote == [raised |-> None, output_file |-> format]
        failed == [raised |-> "Exception", output_file |-> None]
    IN IF format = "json" THEN wrote
       ELSE IF format = "py"
       THEN IF V3ToPythonConverter_convert(NewConverter, block_json).raised
            THEN failed ELSE wrote
       ELSE IF format = "bbmodel"
       THEN IF ModelValidates(block_json) /\ exporter_ok THEN wrote ELSE failed
       ELSE IF exporter_ok THEN wrote ELSE failed

\* ---- the steps

Converts == Len(SelectSeq(code_lines, LAMBDA l : l.kind = "header"))

\* A new converter object.
DslInit ==
    /\ PipeIdle /\ PackIdle /\ UVIdle /\ CoordIdle /\ RotIdle /\ ClayIdle
    /\ StatIdle
    /\ dsl_fn = "V3ToPythonConverter"
    /\ dsl_pc = "new"
    /\ dsl_schema = <<>>
    /\ entity_map = NewConverter.entity_map
    /\ root_entities = NewConverter.root_entities
    /\ code_lines = NewConverter.code_lines
    /\ python_code = <<>>
    /\ json_data = <<>>
    /\ dsl_raised = None
    /\ output_format = None
    /\ output_file = None

\* Hand-written DSL, as a string for import_python or in the input file of
\* convert.
ImportInit ==
    /\ PipeIdle /\ PackIdle /\ UVIdle /\ CoordIdle /\ RotIdle /\ ClayIdle
    /\ StatIdle
    /\ dsl_fn \in {"import_python", "convert"}
    /\ dsl_pc = "call"
    /\ dsl_schema = <<>>
    /\ entity_map = <<>>
    /\ root_entities = <<>>
    /\ code_lines = <<>>
    /\ python_code \in WrittenPrograms
    /\ json_data = <<>>
    /\ dsl_raised = None
    /\ output_format \in IF dsl_fn = "convert" THEN OutputFormats ELSE {None}
    /\ output_file = None

\* converter.convert(schema_data) on the one converter object.
Convert ==
    /\ dsl_fn = "V3ToPythonConverter"
    /\ dsl_pc \in {"new", "converted"}
    /\ Converts < MaxConverts
    /\ \E data \in DslModels :
          LET self == [entity_map |-> entity_map, root_entities |-> root_entities,
                       code_lines |-> code_lines]
              result == V3ToPythonConverter_convert(self, data)
          IN /\ dsl_schema' = data
             /\ entity_map' = result.conv.entity_map
             /\ root_entities' = result.conv.root_entities
             /\ code_lines' = result.conv.code_lines
             /\ dsl_raised' = IF result.raised THEN "Exception" ELSE None
             /\ dsl_pc' = IF result.raised THEN "raised" ELSE "converted"
             /\ python_code' = IF result.raised THEN <<>>
                               ELSE GeneratedCode(result.python_code)
    /\ UNCHANGED <<dsl_fn, json_data, output_format, output_file>>
    /\ UNCHANGED notDslVars

\* import_python(python_code), on hand-written DSL or on the text convert
\* returned.
ImportPython ==
    /\ \/ dsl_fn = "import_python" /\ dsl_pc = "call"
       \/ dsl_fn = "V3ToPythonConverter" /\ dsl_pc = "converted"
    /\ LET result == import_python(python_code)
       IN /\ dsl_raised' = result.raised
          /\ json_data' = result.json_data
    /\ dsl_pc' = "imported"
    /\ UNCHANGED <<dsl_fn, dsl_schema, entity_map, root_entities, code_lines,
                   python_code, output_format, output_file>>
    /\ UNCHANGED notDslVars

\* convert(input_path, output_path) for an input file of Python DSL:
\* _load_to_blockjson, _ensure_textured, which returns at once for an empty
\* dictionary, and _save_from_blockjson.
convert ==
    /\ dsl_fn = "convert"
    /\ dsl_pc = "call"
    /\ \E exporter_ok \in BOOLEAN :
          LET block_json == import_python(python_code)
              saved == save_from_blockjson(block_json.json_data, output_format,
                                           exporter_ok)
          IN /\ json_data' = block_json.json_data
             /\ dsl_raised' = IF block_json.raised # None THEN block_json.raised
                              ELSE saved.raised
             /\ output_file' = IF block_json.raised # None THEN None
                               ELSE saved.output_file
    /\ dsl_pc' = "done"
    /\ UNCHANGED <<dsl_fn, dsl_schema, entity_map, root_entities, code_lines,
                   python_code, output_format>>
    /\ UNCHANGED notDslVars

DslNext == Convert \/ ImportPython

DslSpec == DslInit /\ [][DslNext]_vars

ImportNext == ImportPython \/ convert

ImportSpec == ImportInit /\ [][ImportNext]_vars

\* ================================================================ claims

\* ModelDefinition.model_validate returned a model for schema_data.
Accepted == pc \notin {"validate", "rejected"}

\* The entity of the imported model that stands for the k-th exported one.
ImageOf(k) ==
    {m \in 1..Len(imported.entities) : imported.entities[m].id = UuidOf(k)}

\* C1: for every model whose parent links form a tree, exporting it with
\* export_bbmodel and importing the result with import_bbmodel gives every
\* entity the local pivot it had before the export.
C1_RoundTripKeepsLocalPivot ==
    (pc = "imported" /\ IsTree(schema_data.entities)) =>
        \A k \in 1..Len(schema_data.entities) :
            \E m \in ImageOf(k) :
                imported.entities[m].pivot = schema_data.entities[k].pivot

\* C2: world-pivot resolution terminates for every entity of every entity
\* table, cyclic ones included.  A walk that ends visits no entity twice, so
\* it makes at most as many iterations as the table has entities.
C2_WorldPivotWalkTerminates == walk_len <= Len(schema_data.entities)

\* C7: no model in which an entity is its own ancestor is accepted.
C7_NoParentCycleAccepted == Accepted => ~HasParentCycle(schema_data.entities)

\* C8: every accepted model has pairwise distinct entity ids.
C8_AcceptedIdsDistinct == Accepted => ~HasDuplicateIds(schema_data.entities)

\* C9: in every accepted model each non-null parent is the id of an entity
\* of the same list.
C9_AcceptedParentsResolve == Accepted => ~HasDanglingParent(schema_data.entities)

\* ------------------------------------------------------------ packing claims

\* The pixel regions placed so far, each with the place of its item.
Placed ==
    IF pack_fn = "ShelfPacker"
    THEN {[i |-> i, x |-> packed_results[i].x, y |-> packed_results[i].y,
           w |-> packed_results[i].width, h |-> packed_results[i].height] :
             i \in {j \in 1..Len(packed_results) : packed_results[j].ok}}
    ELSE IF pack_fn = "pack_rectangles"
    THEN {[i |-> i, x |-> packed_results[i].x, y |-> packed_results[i].y,
           w |-> packed_results[i].width, h |-> packed_results[i].height] :
             i \in 1..Len(packed_results)}
    ELSE {[i |-> i, x |-> strips[i].x, y |-> strips[i].y,
           w |-> strips[i].strip_w, h |-> strips[i].strip_h] :
             i \in {j \in 1..Len(strips) : strips[j].packed}}

Intersect(a, b) ==
    /\ a.x < b.x + b.w
    /\ b.x < a.x + a.w
    /\ a.y < b.y + b.h
    /\ b.y < a.y + a.h

\* C3: after any sequence of pack calls on one shelf packer, and in every
\* result of pack_rectangles and pack_strips, no two placed rectangles'
\* pixel regions intersect.
C3_NoTwoPlacedIntersect ==
    \A a \in Placed, b \in Placed : a.i # b.i => ~Intersect(a, b)

\* C3 witness: pack_rectangles returned three rectangles on two shelves.
C3_Witness ==
    /\ pack_fn = "pack_rectangles"
    /\ pack_pc = "done"
    /\ Len(packed_results) = 3
    /\ Len(packer.shelves) = 2

TotalArea ==
    IF pack_fn = "pack_rectangles"
    THEN SumOver(rects, LAMBDA r : r[1] * r[2])
    ELSE SumOver(strips, LAMBDA st : st.strip_w * st.strip_h)

RECURSIVE RectsPackFrom(_, _, _)
\* Every rectangle of order from place i on is packed by p.
RectsPackFrom(p, order, i) ==
    IF i > Len(order) THEN TRUE
    ELSE LET pos == ShelfPackerPack(p, rects[order[i]][1], rects[order[i]][2])
         IN pos.ok /\ RectsPackFrom(pos.packer, order, i + 1)

RECURSIVE StripsPackFrom(_, _, _)
StripsPackFrom(p, order, i) ==
    IF i > Len(order) THEN TRUE
    ELSE LET res == StripPackerPack(p, strips[order[i]])
         IN res.ok /\ StripsPackFrom(res.packer, order, i + 1)

\* All items of the list are packed, tallest first, into a square of this side.
AllPackAt(size) ==
    IF pack_fn = "pack_rectangles"
    THEN RectsPackFrom(ShelfPacker(size, size),
                       SortedDescending(rects, LAMBDA r : <<r[2], r[1]>>), 1)
    ELSE StripsPackFrom(StripPacker(size, size),
                        SortedDescending(strips, LAMBDA st : <<st.strip_h, st.strip_w>>), 1)

PowersOfTwo == {2 ^ k : k \in 0..13}

IsLeastOf(size, sides) == size \in sides /\ \A side \in sides : size <= side

Returned == pack_fn \in {"pack_rectangles", "pack_strips"} /\ pack_pc = "done"

\* C4 as stated: for N >= 1 rectangles, the returned atlas side is the
\* smallest power of two that is at least sqrt(A) and at which all N
\* rectangles are packed.
C4_SmallestPowerOfTwoAboveSqrtArea ==
    (Returned /\ Items # <<>>) =>
        IsLeastOf(atlas_size, {side \in PowersOfTwo :
                                  SquareAtLeast(side, TotalArea) /\ AllPackAt(side)})

\* C4 amended: the returned atlas side is the smallest power of two that is
\* at least 16, at least sqrt(A), and at which all N rectangles are packed.
C4_SmallestPowerOfTwoFromSixteen ==
    Returned =>
        IsLeastOf(atlas_size, {side \in PowersOfTwo :
                                  /\ side >= 16
                                  /\ SquareAtLeast(side, TotalArea)
                                  /\ AllPackAt(side)})

\* C4 witness: pack_rectangles returned after it had to double the atlas.
C4_Witness ==
    /\ pack_fn = "pack_rectangles"
    /\ pack_pc = "done"
    /\ rects # <<>>
    /\ atlas_size = 2 * RectStartSize(rects)

AllPlaced ==
    IF pack_fn = "pack_rectangles"
    THEN {packed_results[i].id : i \in 1..Len(packed_results)} = 1..Len(rects)
    ELSE \A i \in 1..Len(strips) : strips[i].packed

\* C5: every started pack_rectangles or pack_strips call ends: it returns an
\* atlas size not above the upper bound with every item placed, or it raises.
C5_PackingTerminates ==
    (pack_pc = "start") ~>
        \/ pack_pc = "error"
        \/ pack_pc = "done" /\ atlas_size <= MaxSize /\ AllPlaced

\* C5 witness: pack_strips raised after the retry at the upper bound failed.
C5_Witness ==
    /\ pack_fn = "pack_strips"
    /\ pack_pc = "error"
    /\ packer.width = StripMaxSize
    /\ atlas_size > StripMaxSize

\* C10: the second run on the same list ends as the first did, with the same
\* atlas size and the same position for every item.
C10_SecondRunRepeatsFirst ==
    (run = 2 /\ pack_pc \in {"done", "error"}) => Outcome = first_outcome

\* C10 witness: a second pack_strips run returned, on strips the first run
\* had left positioned away from the origin.
C10_Witness ==
    /\ pack_fn = "pack_strips"
    /\ run = 2
    /\ pack_pc = "done"
    /\ first_outcome.pc = "done"
    /\ \E i \in 1..Len(strips) : first_outcome.positions[i][1] > 0
    /\ \E i \in 1..Len(strips) : first_outcome.positions[i][2] > 0

\* ------------------------------------------------------------- UV claims

\* The fraction <<n, d>> is the grid coordinate u / UVGrid.
SameCoordinate(frac, u) == frac[1] * UVGrid = u * frac[2]

\* C6: for every face and every canonical UV rectangle, to_bbmodel followed
\* by the import mapping with the same atlas size returns the original
\* rectangle exactly.
C6_ExportThenImportReturnsRectangle ==
    uv_pc = "normalized" =>
        \A i \in 1..4 : SameCoordinate(face_uv[i], normalized_uvs[i])

\* ------------------------------------------------------ world pivot claims

RECURSIVE PivotSum(_, _)
\* The componentwise sum of the local pivots of the entities at the places S.
PivotSum(ents, S) ==
    IF S = {} THEN <<0, 0, 0>>
    ELSE LET k == CHOOSE j \in S : TRUE
             rest == PivotSum(ents, S \ {k})
         IN <<ents[k].pivot[1] + rest[1], ents[k].pivot[2] + rest[2],
              ents[k].pivot[3] + rest[3]>>

\* _calculate_world_pivot is about to return for the entity at ent_idx.
WalkReturns ==
    pc = "walk" /\ ~WalkContinues(schema_data.entities, current_parent_id)

\* C11: in an acyclic hierarchy the resolved world pivot of an entity is the
\* componentwise sum of its own local pivot and the local pivots of all its
\* ancestors up to the root.
C11_WorldPivotIsSumOverAncestors ==
    (WalkReturns /\ IsTree(schema_data.entities)) =>
        world_pivot = PivotSum(schema_data.entities,
                               {ent_idx} \cup Ancestors(schema_data.entities, ent_idx))

\* C11 witness: the chain root, child, grandchild with local pivots
\* [0,0,0], [1,0,0], [2,0,0]; the grandchild's world pivot is [3,0,0].
C11_Witness ==
    /\ WalkReturns
    /\ Len(schema_data.entities) = 3
    /\ ent_idx = 3
    /\ schema_data.entities[1].parent = None
    /\ schema_data.entities[2].parent = schema_data.entities[1].id
    /\ schema_data.entities[3].parent = schema_data.entities[2].id
    /\ schema_data.entities[1].pivot = <<0, 0, 0>>
    /\ schema_data.entities[2].pivot = <<UnitsPerBlock, 0, 0>>
    /\ schema_data.entities[3].pivot = <<2 * UnitsPerBlock, 0, 0>>
    /\ world_pivot = <<3 * UnitsPerBlock, 0, 0>>

\* ------------------------------------------------------- coordinate claims

\* C12: a position and a quaternion taken from the canonical convention to
\* the external tool's and back, or from the external one to the canonical
\* one and back, come back unchanged.
C12_TransformThereAndBackIsIdentity ==
    coord_pc = "back" => (pos_out = pos_in /\ quat_out = quat_in)

\* C12 witness: a position and a quaternion with three different non-zero
\* swapped components came back from the Blender convention.
C12_Witness ==
    /\ coord_pc = "back"
    /\ coord_dir = "v3_to_blender"
    /\ pos_in[2] = 1 /\ pos_in[3] = -1
    /\ quat_in[3] = 1 /\ quat_in[4] = -1
    /\ pos_out = pos_in
    /\ quat_out = quat_in

\* C13: a unit quaternion whose Euler angles are outside gimbal lock comes
\* back from quaternion_to_euler then euler_to_quaternion as a rotation
\* within 0.1 degree of itself.
C13_RoundTripWithinTenthOfDegree ==
    (rot_fn = "test_roundtrip_accuracy" /\ rot_pc = "done"
        /\ ~is_gimbal_lock(euler, DefaultTolerance))
        => error_deg <= MilliDeg \div 10

RectAt(x_offset, y_offset, width, height) ==
    <<box_args[4] + x_offset, box_args[5] + y_offset,
      box_args[4] + x_offset + width, box_args[5] + y_offset + height>>

CuboidIndices == {i \in 1..Len(v3_json.entities) : v3_json.entities[i].type = "cuboid"}
\* The strip generate_clay_atlas built for the cuboid at place i.
OwnStrip(i) == clay_strips[Cardinality({j \in CuboidIndices : j <= i})]
OwnRegion(i, f) ==
    get_box_uv_face_rects(OwnStrip(i).w_px, OwnStrip(i).h_px, OwnStrip(i).d_px,
                          OwnStrip(i).x, OwnStrip(i).y)[f]

\* C15: after generate_clay_atlas returns for a model with at least one
\* cuboid, every cuboid has on each of its six faces the rectangle of its
\* own packed face region divided by the atlas size, and every stored UV
\* value lies in [0, 1].
C15_EveryCuboidHasItsOwnFaceUVs ==
    (clay_fn = "generate_clay_atlas" /\ clay_pc = "done" /\ CuboidIndices # {}) =>
        \A i \in CuboidIndices : \A f \in FaceEnum :
            LET uv == v3_json.entities[i].faces[f].uv
                side == v3_json.meta.atlases.main.resolution[1]
            IN /\ uv = NormalizedRect(OwnRegion(i, f), side)
               /\ \A k \in 1..4 : 0 <= uv[k][1] /\ uv[k][1] <= uv[k][2]

Denormalized(i) ==
    RoundHalfEven(normalized_uvs[i] * (IF i \in {1, 3} THEN atlas_w ELSE atlas_h), UVGrid)

Larger(a, b) == IF a >= b THEN a ELSE b
Smaller(a, b) == IF a <= b THEN a ELSE b

InHalfOpenRange(a) == a > -180 * MilliDeg /\ a <= 180 * MilliDeg

\* C18: every angle quaternion_to_euler returns is strictly greater than
\* -180 degrees and at most 180 degrees.
C18_AnglesInHalfOpenRange ==
    /\ (rot_fn = "test_roundtrip_accuracy" /\ rot_pc \in {"euler", "done"}) =>
          \A i \in 1..3 : InHalfOpenRange(euler[i])
    /\ (rot_fn = "_normalize_angle" /\ rot_pc = "done") =>
          InHalfOpenRange(normalized_angle)

GimbalAnswered == rot_fn = "is_gimbal_lock" /\ rot_pc = "done"

FirstSizeChosen == pack_fn = "pack_strips" /\ pack_pc = "loop" /\ pack_i = 0

\* C20: the first atlas size pack_strips tries is the smallest power of two,
\* not below 16, whose square can hold the largest single strip (the first
\* strip of the sorted list: the tallest, and the widest of the tallest).
C20_FirstSizeHoldsLargestStrip ==
    FirstSizeChosen =>
        LET largest == strips[sorted_order[1]]
        IN IsLeastOf(atlas_size, {side \in PowersOfTwo :
                                    /\ side >= 16
                                    /\ largest.strip_w <= side
                                    /\ largest.strip_h <= side})

\* Two pixel rectangles (x1, y1, x2, y2) share a pixel.
RectsOverlap(a, b) == a[1] < b[3] /\ b[1] < a[3] /\ a[2] < b[4] /\ b[2] < a[4]
RectInside(a, b) == b[1] <= a[1] /\ a[3] <= b[3] /\ b[2] <= a[2] /\ a[4] <= b[4]

\* C28: for all w_px, h_px, d_px >= 1 the six face rectangles of one strip
\* are pairwise disjoint and lie inside the strip rectangle of width
\* 2 * (w_px + d_px) and height h_px + d_px anchored at the strip origin.
C28_FacesDisjointInsideStrip ==
    (clay_fn = "get_box_uv_face_rects" /\ clay_pc = "done") =>
        LET strip_rect == <<box_args[4], box_args[5],
                            box_args[4] + 2 * (box_args[1] + box_args[3]),
                            box_args[5] + box_args[2] + box_args[3]>>
        IN /\ DOMAIN face_rects = FaceEnum
           /\ \A f \in FaceEnum : RectInside(face_rects[f], strip_rect)
           /\ \A f, g \in FaceEnum : f # g => ~RectsOverlap(face_rects[f], face_rects[g])

C28_Witness ==
    /\ clay_fn = "get_box_uv_face_rects"
    /\ clay_pc = "done"
    /\ box_args = <<3, 2, 1, 5, 7>>
    /\ face_rects.bottom = <<9, 7, 12, 8>>

\* C22: texturing a model leaves the dictionary the caller passed in
\* unchanged: after generate_clay_atlas returns, the input has exactly the
\* contents it had before the call.
C22_InputLeftUnchanged ==
    [][(GenerateClayAtlas /\ clay_pc' = "done") => v3_json' = v3_json]_vars

UVInUnitRange(uv) == \A i \in 1..Len(uv) : 0 <= uv[i][1] /\ uv[i][1] <= uv[i][2]

\* C21: the schema accepts a FaceTexture only if its four uv values lie in
\* [0, 1], so every face of a constructed or imported model has uv values
\* within [0, 1].
C21_AcceptedUVsInUnitRange ==
    /\ uv_pc \in {"canonical", "pixels", "normalized", "corners"} =>
          UVInUnitRange([i \in 1..4 |-> <<normalized_uvs[i], UVGrid>>])
    /\ uv_pc = "normalized" => UVInUnitRange(face_uv)


\* The id that entity k's parent link has after the ids are renamed.
RenamedParents(k) ==
    IF schema_data.entities[k].parent = None THEN {None}
    ELSE {UuidOf(j) : j \in {i \in 1..Len(schema_data.entities) :
            schema_data.entities[i].id = schema_data.entities[k].parent}}

\* C23: exporting a model with export_bbmodel and importing the result with
\* import_bbmodel gives a model with as many entities, in which every entity
\* has the parent it had before, up to the renaming of ids.
C23_RoundTripKeepsHierarchy ==
    pc = "imported" =>
        /\ Len(imported.entities) = Len(schema_data.entities)
        /\ \A k \in 1..Len(schema_data.entities) :
              \E m \in ImageOf(k) :
                  imported.entities[m].parent \in RenamedParents(k)

\* C24: the texel density of the meta block after export_bbmodel and
\* import_bbmodel is the texel density of the exported model.
C24_RoundTripKeepsTexelDensity ==
    pc = "imported" =>
        imported.meta.texel_density = schema_data.meta.texel_density


\* C27: after any sequence of generate and reset_stats calls on one
\* Blocksmith object, the call_count of get_stats is the number of generate
\* calls that returned since the last reset.
C27_CallCountIsSuccessfulGenerations == get_stats.call_count = generated_ok


\* The entities of a list that have the given type.
OfType(entities, ty) == {k \in 1..Len(entities) : entities[k].type = ty}

\* C25: V3ToPythonConverter.convert on a new converter followed by
\* import_python gives a model with as many entities, as many of each type,
\* and for every entity one of the same id, type and parent.
C25_DslRoundTripKeepsStructure ==
    (dsl_fn = "V3ToPythonConverter" /\ dsl_pc = "imported" /\ Converts = 1) =>
        /\ dsl_raised = None
        /\ Len(json_data.entities) = Len(dsl_schema.entities)
        /\ \A ty \in {"cuboid", "group"} :
              Cardinality(OfType(json_data.entities, ty))
                  = Cardinality(OfType(dsl_schema.entities, ty))
        /\ \A k \in 1..Len(dsl_schema.entities) :
              \E j \in 1..Len(json_data.entities) :
                  json_data.entities[j] = dsl_schema.entities[k]

\* The DSL raises while it runs or while its model function runs.
FailsToExecute(p) ==
    p.raises # None \/ (p.defines # "nothing" /\ p.call_raises # None)

\* The DSL runs and leaves neither a model function nor a variable.
DefinesNoModel(p) == p.raises = None /\ p.defines = "nothing"

\* The DSL yields a list with an entity the schema rejects.
YieldsRejectedEntities(p) ==
    /\ ~FailsToExecute(p) /\ p.defines # "nothing" /\ p.is_list
    /\ \E k \in 1..Len(p.items) : ~EntityDictValid(p.items[k])

\* The exception that leaves the DSL is not an Exception.
RaisesBaseException(p) ==
    \/ p.raises = "BaseException"
    \/ p.raises = None /\ p.defines \in {"entities", "create_model"}
          /\ p.call_raises = "BaseException"

ImportPythonReturned == dsl_fn = "import_python" /\ dsl_pc = "imported"

C29_ConvertDependsOnModelOnly ==
    (dsl_fn = "V3ToPythonConverter" /\ dsl_pc \in {"converted", "raised"}) =>
        LET fresh == V3ToPythonConverter_convert(NewConverter, dsl_schema)
        IN /\ (dsl_pc = "raised") = fresh.raised
           /\ dsl_pc = "converted" =>
                 python_code = GeneratedCode(fresh.python_code)

\* C30: convert writes the output file only after the input was imported;
\* for an input file of Python DSL that cannot be imported it raises and
\* writes nothing, whatever the output format.
C30_FailedImportWritesNothing ==
    (dsl_fn = "convert" /\ dsl_pc = "done"
        /\ (import_python(python_code).raised # None
                \/ import_python(python_code).json_data = EmptyDict)) =>
        dsl_raised # None /\ output_file = None

====
